---- MODULE Spec2Model ----
(***************************************************************************)
(* A model of the KIS Open API client of broker-korea (src/src/kis) and of *)
(* the HTTP host-function wrapper it sits on (src/src/http.rs).            *)
(*                                                                         *)
(* A KisClient holds its configuration and at most one TokenInfo.  Every   *)
(* domain operation of the five asset-class modules is a blocking call:    *)
(* it issues up to three HTTP requests through the host (token, hashkey,   *)
(* domain request) and returns a KisResult.  The host's answers are the    *)
(* environment: each request is answered by a response drawn from a small  *)
(* set that holds every case the code distinguishes.                       *)
(*                                                                         *)
(* Rust's Option<T> is a sequence of length <= 1, Result<T, KisError> is a *)
(* record [ok, value] or [ok, err], a JSON object is a record whose domain *)
(* is the set of fields present in it.                                     *)
(***************************************************************************)
EXTENDS Integers, Sequences, FiniteSets, TLC

VARIABLES
    client,   \* the KisClient: [config, http, token]
    now,      \* the clock current_timestamp() reads (Unix seconds)
    call,     \* the invocation last made on the client, until it is handed back
    applied,  \* a function of the host boundary applied to one input: [fn, given, returned]
    state,    \* the plugin's BrokerState behind STATE (lib.rs)
    entry,    \* the entry point of the plugin last called, until its response is taken
    lock,     \* the thread that holds the Mutex around STATE, if one does
    threads   \* where each thread of the host is in the entry point it called

vars == <<client, now, call, applied, state, entry, lock, threads>>

(***************************************************************************)
(* Bounds of the model.                                                    *)
(***************************************************************************)
MaxNow == 2
MaxRoundTrip == 1

(***************************************************************************)
(* Option and Result.                                                      *)
(***************************************************************************)
None == << >>
Some(x) == << x >>
Unit == "()"
Ok(v) == [ok |-> TRUE, value |-> v]
KisError(kind, code, message) == [kind |-> kind, code |-> code, message |-> message]
Err(e) == [ok |-> FALSE, err |-> e]

(***************************************************************************)
(* http.rs: responses of the host function.                                *)
(***************************************************************************)
HttpResponse(status, error, body) == [status |-> status, error |-> error, body |-> body]

\* a variant that looks at the status alone
HttpResponse_is_success_by_status(r) == r.status \in 200..299

HttpResponse_is_success(r) == r.error = None /\ r.status \in 200..299

NotJson == [garbage |-> TRUE]
IsJson(body) == "garbage" \notin DOMAIN body
Has(body, f) == f \in DOMAIN body

\* u16::to_string of the status codes the model's responses carry
StatusString(s) ==
    CASE s = 0 -> "0"
      [] s = 199 -> "199"
      [] s = 200 -> "200"
      [] s = 201 -> "201"
      [] s = 299 -> "299"
      [] s = 300 -> "300"
      [] s = 401 -> "401"
      [] s = 500 -> "500"

\* response.error.unwrap_or(response.body): the error marker, else the body
ErrorOrBody(r) == IF r.error # None THEN r.error[1] ELSE r.body

TransportFailures ==
    { HttpResponse(401, None, NotJson),
      HttpResponse(0, Some("Host function returned null response"), NotJson) }

(***************************************************************************)
(* kis/mod.rs: the client.                                                 *)
(***************************************************************************)
PROD_BASE_URL == "https://openapi.koreainvestment.com:9443"
VPS_BASE_URL == "https://openapivts.koreainvestment.com:29443"

KisConfig(is_paper) ==
    [app_key |-> "key", app_secret |-> "secret", account_no |-> "1234567801",
     is_paper |-> is_paper]

KisClient_new(config) ==
    [config |-> config,
     http |-> [base_url |-> IF config.is_paper THEN VPS_BASE_URL ELSE PROD_BASE_URL],
     token |-> None]

(***************************************************************************)
(* kis/auth.rs: the token and its expiry.                                  *)
(***************************************************************************)
EXPIRY_BUFFER == 300

\* a variant whose margin is one second shorter
is_expired_strict(tok, t) == tok.expires_at < t + EXPIRY_BUFFER

is_expired(tok, t) == tok.expires_at <= t + EXPIRY_BUFFER

is_authenticated(c, t) ==
    IF c.token = None THEN FALSE ELSE ~is_expired(c.token[1], t)

\* struct TokenResponse: serde fails on a body that is not JSON or lacks a required field
TokenResponse_parses(body) ==
    IsJson(body) /\ {"access_token", "token_type", "expires_in"} \subseteq DOMAIN body

\* u64: the width of expires_in, expires_at and the clock.  The model keeps the
\* words 30 bits wide, so that TLC can add two of them.
U64_MODULUS == 2^30
U64_MAX == U64_MODULUS - 1

\* a u64 addition that overflows panics in a build with overflow checks
Panic == Err(KisError("Panic", "", "attempt to add with overflow"))

\* get_token, given the host's answer and the clock value read after it arrived.
\* `now + token_response.expires_in` wraps around in a build without overflow
\* checks and panics in a build with them.
get_token(resp, t, overflow_checks) ==
    IF ~HttpResponse_is_success(resp)
    THEN Err(KisError("Auth", "", "Token request failed"))
    ELSE IF ~TokenResponse_parses(resp.body)
    THEN Err(KisError("Parse", "", "Failed to parse token response"))
    ELSE IF overflow_checks /\ t + resp.body.expires_in > U64_MAX
    THEN Panic
    ELSE Ok([access_token |-> resp.body.access_token,
             token_type |-> resp.body.token_type,
             expires_in |-> resp.body.expires_in,
             expires_at |-> (t + resp.body.expires_in) % U64_MODULUS])

\* struct HashkeyResponse { BODY: Option<HashkeyBody { HASH: String }>, HASH: Option<String> }
HashkeyResponse_parses(body) ==
    IsJson(body) /\ (Has(body, "BODY") => Has(body.BODY, "HASH"))

get_hashkey(resp) ==
    IF ~HttpResponse_is_success(resp)
    THEN Err(KisError("Auth", "", "Hashkey request failed"))
    ELSE IF ~HashkeyResponse_parses(resp.body)
    THEN Err(KisError("Parse", "", "Failed to parse hashkey response"))
    ELSE IF Has(resp.body, "HASH") THEN Ok(resp.body.HASH)
    ELSE IF Has(resp.body, "BODY") THEN Ok(resp.body.BODY.HASH)
    ELSE Err(KisError("Parse", "", "Hashkey not found in response"))

(***************************************************************************)
(* The requests a call hands to the host, in the order it issues them.     *)
(* Each entry keeps the headers that matter and the host's answer.         *)
(***************************************************************************)
Request(kind, method, headers, resp) ==
    [kind |-> kind, method |-> method, headers |-> headers, resp |-> resp]

NoHeaders == [authorization |-> None, tr_id |-> None, hashkey |-> None]

\* what a call leaves behind: the client, the clock, the requests, the result
Outcome(c, t, log, result) == [client |-> c, now |-> t, log |-> log, result |-> result]

(***************************************************************************)
(* kis/mod.rs: authentication.  env.token is the host's answer to a token  *)
(* request, env.dt the time that request takes.                            *)
(***************************************************************************)
\* a variant that drops the stored credential when the acquisition fails
authenticate_forgetful(c, env, t) ==
    LET token == get_token(env.token, t + env.dt, env.overflow_checks)
        log == << Request("token", "POST", NoHeaders, env.token) >>
    IN  IF token.ok
        THEN Outcome([c EXCEPT !.token = Some(token.value)], t + env.dt, log, Ok(Unit))
        ELSE Outcome([c EXCEPT !.token = None], t + env.dt, log, token)

\* a variant of authenticate: a credential already held keeps its expiry
authenticate_merging(c, env, t) ==
    LET token == get_token(env.token, t + env.dt, env.overflow_checks)
        log == << Request("token", "POST", NoHeaders, env.token) >>
    IN  IF token.ok
        THEN Outcome([c EXCEPT !.token =
                         Some(IF c.token = None THEN token.value
                              ELSE [token.value EXCEPT !.expires_at = c.token[1].expires_at])],
                     t + env.dt, log, Ok(Unit))
        ELSE Outcome(c, t + env.dt, log, token)

authenticate(c, env, t) ==
    LET token == get_token(env.token, t + env.dt, env.overflow_checks)
        log == << Request("token", "POST", NoHeaders, env.token) >>
    IN  IF token.ok
        THEN Outcome([c EXCEPT !.token = Some(token.value)], t + env.dt, log, Ok(Unit))
        ELSE Outcome(c, t + env.dt, log, token)

\* a variant that acquires a credential on every call
ensure_auth_always(c, env, t) == authenticate(c, env, t)

ensure_auth(c, env, t) ==
    IF ~is_authenticated(c, t)
    THEN authenticate(c, env, t)
    ELSE Outcome(c, t, << >>, Ok(Unit))

build_headers(c, tr_id) ==
    IF c.token = None
    THEN Err(KisError("Auth", "", "Not authenticated. Call authenticate() first."))
    ELSE Ok([authorization |-> Some(c.token[1].access_token),
             tr_id |-> Some(tr_id),
             hashkey |-> None])

\* the transport check every domain request is followed by
CheckTransport(resp) ==
    IF ~HttpResponse_is_success(resp)
    THEN Err(KisError("Api", StatusString(resp.status), ErrorOrBody(resp)))
    ELSE Ok(resp)

\* KisClient::get and KisClient::post: [log, result]
get(c, tr_id, resp) ==
    LET headers == build_headers(c, tr_id)
    IN  IF ~headers.ok
        THEN [log |-> << >>, result |-> headers]
        ELSE [log |-> << Request("domain", "GET", headers.value, resp) >>,
              result |-> CheckTransport(resp)]

post(c, tr_id, resp) ==
    LET headers == build_headers(c, tr_id)
    IN  IF ~headers.ok
        THEN [log |-> << >>, result |-> headers]
        ELSE [log |-> << Request("domain", "POST", headers.value, resp) >>,
              result |-> CheckTransport(resp)]

\* build_headers, headers.insert("hashkey", ..), http.post_json, transport check
post_with_hashkey(c, tr_id, hashkey, resp) ==
    LET headers == build_headers(c, tr_id)
    IN  IF ~headers.ok
        THEN [log |-> << >>, result |-> headers]
        ELSE [log |-> << Request("domain", "POST",
                                 [headers.value EXCEPT !.hashkey = Some(hashkey)], resp) >>,
              result |-> CheckTransport(resp)]

(***************************************************************************)
(* kis/types.rs: the response wrapper, and what each kind of operation     *)
(* makes of a response that passed the transport check.                    *)
(***************************************************************************)
Field(body, f) == IF Has(body, f) THEN Some(body[f]) ELSE None

\* struct KisApiResponse<T>: rt_cd, msg_cd and msg1 are required, the payloads optional
KisApiResponse_parse(resp) ==
    IF IsJson(resp.body) /\ {"rt_cd", "msg_cd", "msg1"} \subseteq DOMAIN resp.body
    THEN Ok([rt_cd |-> resp.body.rt_cd, msg_cd |-> resp.body.msg_cd, msg1 |-> resp.body.msg1,
             output |-> Field(resp.body, "output"),
             output1 |-> Field(resp.body, "output1"),
             output2 |-> Field(resp.body, "output2")])
    ELSE Err(KisError("Parse", "", "Failed to parse response"))

KisApiResponse_is_success(api_response) == api_response.rt_cd = "0"

ApiError(api_response) == Err(KisError("Api", api_response.msg_cd, api_response.msg1))

\* .. api_response.output.ok_or_else(|| KisError::Parse("No output ..."))
\* (each operation words this message its own way; the model keeps one wording)
SingleResult(resp) ==
    LET api_response == KisApiResponse_parse(resp)
    IN  IF ~api_response.ok THEN api_response
        ELSE IF ~KisApiResponse_is_success(api_response.value) THEN ApiError(api_response.value)
        ELSE IF api_response.value.output = None
        THEN Err(KisError("Parse", "", "No output in response"))
        ELSE Ok(api_response.value.output[1])

\* a variant that refuses a response without output1
ListResult_strict(resp) ==
    LET api_response == KisApiResponse_parse(resp)
    IN  IF ~api_response.ok THEN api_response
        ELSE IF ~KisApiResponse_is_success(api_response.value) THEN ApiError(api_response.value)
        ELSE IF api_response.value.output1 = None
        THEN Err(KisError("Parse", "", "No output in response"))
        ELSE Ok(api_response.value.output1[1])

\* .. Ok(api_response.output1.unwrap_or_default())
ListResult(resp) ==
    LET api_response == KisApiResponse_parse(resp)
    IN  IF ~api_response.ok THEN api_response
        ELSE IF ~KisApiResponse_is_success(api_response.value) THEN ApiError(api_response.value)
        ELSE IF api_response.value.output1 = None THEN Ok(<< >>)
        ELSE Ok(api_response.value.output1[1])

\* future_modify_order, future_cancel_order: Ok(api_response.is_success())
FlagResult(resp) ==
    LET api_response == KisApiResponse_parse(resp)
    IN  IF ~api_response.ok THEN api_response
        ELSE Ok(KisApiResponse_is_success(api_response.value))

\* the BalanceSummary domestic_balance builds when output2 is absent or empty
EmptyBalanceSummary ==
    [tot_evlu_amt |-> None, dnca_tot_amt |-> None, ord_psbl_cash |-> None,
     evlu_pfls_smtl_amt |-> None, evlu_pfls_rt |-> None]

\* BalanceSummary as serde reads it: every field is an Option<String>
BalanceSummary(json) ==
    [f \in DOMAIN EmptyBalanceSummary |-> IF Has(json, f) THEN Some(json[f]) ELSE None]

\* domestic_balance: (items, summary) from output1 and the first entry of output2
BalanceResult(resp) ==
    LET api_response == KisApiResponse_parse(resp)
    IN  IF ~api_response.ok THEN api_response
        ELSE IF api_response.value.rt_cd # "0" THEN ApiError(api_response.value)
        ELSE Ok([items |-> IF api_response.value.output1 = None THEN << >>
                           ELSE api_response.value.output1[1],
                 summary |-> IF api_response.value.output2 = None
                                \/ api_response.value.output2[1] = << >>
                             THEN EmptyBalanceSummary
                             ELSE BalanceSummary(Head(api_response.value.output2[1]))])

\* overseas futures: the OrderResult built from output and msg1
OrderResultOf(resp) ==
    LET api_response == KisApiResponse_parse(resp)
    IN  IF ~api_response.ok THEN api_response
        ELSE IF ~KisApiResponse_is_success(api_response.value) THEN ApiError(api_response.value)
        ELSE IF api_response.value.output = None
        THEN Err(KisError("Parse", "", "No output in response"))
        ELSE Ok([order_no |-> api_response.value.output[1].ODNO,
                 order_date |-> api_response.value.output[1].ORD_TMD,
                 success |-> TRUE,
                 message |-> api_response.value.msg1])

Decode(shape, resp) ==
    CASE shape = "single" -> SingleResult(resp)
      [] shape = "list" -> ListResult(resp)
      [] shape = "flag" -> FlagResult(resp)
      [] shape = "balance" -> BalanceResult(resp)
      [] shape = "order_result" -> OrderResultOf(resp)

\* a variant of Finish: an operation that ends with an error drops the credential
Finish_forgetting(o, shape) ==
    IF o.result.ok THEN [o EXCEPT !.result = Decode(shape, o.result.value)]
    ELSE [o EXCEPT !.client.token = None]

\* the rest of an operation, once its domain request passed the transport check
Finish(o, shape) ==
    IF o.result.ok THEN [o EXCEPT !.result = Decode(shape, o.result.value)] ELSE o

(***************************************************************************)
(* The bodies the operations share.                                        *)
(***************************************************************************)
HashkeyRequest(env) == Request("hashkey", "POST", NoHeaders, env.hashkey)

\* a variant that asks for the hashkey a second time when the first request fails
order_retrying_sign(c, env, t, tr_id) ==
    LET a == ensure_auth(c, env, t)
        hashkey == get_hashkey(env.hashkey)
        log1 == Append(a.log, HashkeyRequest(env))
        log2 == IF hashkey.ok THEN log1 ELSE Append(log1, HashkeyRequest(env))
        p == post_with_hashkey(a.client, tr_id, hashkey.value, env.domain)
    IN  IF ~a.result.ok THEN a
        ELSE IF ~hashkey.ok THEN Outcome(a.client, a.now, log2, hashkey)
        ELSE Outcome(a.client, a.now, log2 \o p.log, p.result)

\* a variant that sends the order although signing failed
order_unsigned_on_failure(c, env, t, tr_id) ==
    LET a == ensure_auth(c, env, t)
        hashkey == get_hashkey(env.hashkey)
        log1 == Append(a.log, HashkeyRequest(env))
        p == post_with_hashkey(a.client, tr_id, IF hashkey.ok THEN hashkey.value ELSE "",
                               env.domain)
    IN  IF ~a.result.ok THEN a
        ELSE Outcome(a.client, a.now, log1 \o p.log, p.result)

\* a variant that signs before it refreshes the credential
order_sign_first(c, env, t, tr_id) ==
    LET hashkey == get_hashkey(env.hashkey)
        log1 == << HashkeyRequest(env) >>
        a == ensure_auth(c, env, t)
        p == post_with_hashkey(a.client, tr_id, hashkey.value, env.domain)
    IN  IF ~hashkey.ok THEN Outcome(c, t, log1, hashkey)
        ELSE IF ~a.result.ok THEN Outcome(a.client, a.now, log1 \o a.log, a.result)
        ELSE Outcome(a.client, a.now, log1 \o a.log \o p.log, p.result)

\* ensure_auth()?; get_hashkey(&request)?; build_headers; post_json; transport check
order_with_auth(c, env, t, tr_id) ==
    LET a == ensure_auth(c, env, t)
        hashkey == get_hashkey(env.hashkey)
        log1 == Append(a.log, HashkeyRequest(env))
        p == post_with_hashkey(a.client, tr_id, hashkey.value, env.domain)
    IN  IF ~a.result.ok THEN a
        ELSE IF ~hashkey.ok THEN Outcome(a.client, a.now, log1, hashkey)
        ELSE Outcome(a.client, a.now, log1 \o p.log, p.result)

\* get_hashkey(&request)?; build_headers; post_json; transport check
order_without_auth(c, env, t, tr_id) ==
    LET hashkey == get_hashkey(env.hashkey)
        log1 == << HashkeyRequest(env) >>
        p == post_with_hashkey(c, tr_id, hashkey.value, env.domain)
    IN  IF ~hashkey.ok THEN Outcome(c, t, log1, hashkey)
        ELSE Outcome(c, t, log1 \o p.log, p.result)

\* ensure_auth()?; self.get(..)?
get_with_auth(c, env, t, tr_id) ==
    LET a == ensure_auth(c, env, t)
        g == get(a.client, tr_id, env.domain)
    IN  IF ~a.result.ok THEN a
        ELSE Outcome(a.client, a.now, a.log \o g.log, g.result)

\* self.get(..)? and self.post(..)? alone
get_without_auth(c, env, t, tr_id) ==
    LET g == get(c, tr_id, env.domain)
    IN  Outcome(c, t, g.log, g.result)

post_without_auth(c, env, t, tr_id) ==
    LET p == post(c, tr_id, env.domain)
    IN  Outcome(c, t, p.log, p.result)

\* if self.config.is_paper { paper } else { prod }
TrId(c, prod_id, paper_id) == IF c.config.is_paper THEN paper_id ELSE prod_id

(***************************************************************************)
(* kis/domestic_stock.rs                                                   *)
(***************************************************************************)
domestic_buy(c, env, t) ==
    Finish(order_with_auth(c, env, t, TrId(c, "TTTC0802U", "VTTC0802U")), "single")

domestic_sell(c, env, t) ==
    Finish(order_with_auth(c, env, t, TrId(c, "TTTC0801U", "VTTC0801U")), "single")

domestic_revise_order(c, env, t) ==
    Finish(order_with_auth(c, env, t, "TTTC0803U"), "single")

domestic_cancel_order(c, env, t) ==
    Finish(order_with_auth(c, env, t, "TTTC0803U"), "single")

domestic_balance(c, env, t) ==
    Finish(get_with_auth(c, env, t, TrId(c, "TTTC8434R", "VTTC8434R")), "balance")

domestic_current_price(c, env, t) ==
    Finish(get_with_auth(c, env, t, "FHKST01010100"), "single")

(***************************************************************************)
(* kis/overseas_stock.rs                                                   *)
(***************************************************************************)
Exchanges == {"NYSE", "NASDAQ", "AMEX", "SEHK", "SHAA", "SZAA", "TKSE", "HASE", "VNSE"}
OrderSides == {"Buy", "Sell"}

get_overseas_order_tr_id(c, exchange, side) ==
    LET prefix == IF c.config.is_paper THEN "V" ELSE "T"
    IN  CASE exchange \in {"NYSE", "NASDAQ", "AMEX"} ->
                 IF side = "Buy" THEN prefix \o "TTT1002U" ELSE prefix \o "TTT1006U"
          [] exchange = "SEHK" ->
                 IF side = "Buy" THEN prefix \o "TTS1002U" ELSE prefix \o "TTS1001U"
          [] exchange = "SHAA" ->
                 IF side = "Buy" THEN prefix \o "TTS0202U" ELSE prefix \o "TTS1005U"
          [] exchange = "SZAA" ->
                 IF side = "Buy" THEN prefix \o "TTS0305U" ELSE prefix \o "TTS0304U"
          [] exchange = "TKSE" ->
                 IF side = "Buy" THEN prefix \o "TTS0308U" ELSE prefix \o "TTS0307U"
          [] exchange \in {"HASE", "VNSE"} ->
                 IF side = "Buy" THEN prefix \o "TTS0311U" ELSE prefix \o "TTS0310U"

overseas_order(c, env, t, exchange, side) ==
    Finish(order_with_auth(c, env, t, get_overseas_order_tr_id(c, exchange, side)), "single")

overseas_balance(c, env, t) ==
    Finish(get_with_auth(c, env, t, TrId(c, "TTTS3012R", "VTTS3012R")), "list")

overseas_price(c, env, t) ==
    Finish(get_with_auth(c, env, t, "HHDFS00000300"), "single")

(***************************************************************************)
(* kis/domestic_future.rs                                                  *)
(***************************************************************************)
FutureOrderActions == {"NewBuy", "NewSell", "LiquidateBuy", "LiquidateSell"}

prod_tr_id(action) ==
    CASE action = "NewBuy" -> "TTTO0101U"
      [] action = "NewSell" -> "TTTO0102U"
      [] action = "LiquidateBuy" -> "TTTO0103U"
      [] action = "LiquidateSell" -> "TTTO0104U"

paper_tr_id(action) ==
    CASE action = "NewBuy" -> "VTTO0101U"
      [] action = "NewSell" -> "VTTO0102U"
      [] action = "LiquidateBuy" -> "VTTO0103U"
      [] action = "LiquidateSell" -> "VTTO0104U"

get_future_tr_id(c, prod_id, paper_id) == IF c.config.is_paper THEN paper_id ELSE prod_id

future_order(c, env, t, action) ==
    Finish(order_with_auth(c, env, t,
                           get_future_tr_id(c, prod_tr_id(action), paper_tr_id(action))),
           "single")

future_modify_order(c, env, t) ==
    Finish(order_with_auth(c, env, t, get_future_tr_id(c, "TTTO0105U", "VTTO0105U")), "flag")

future_cancel_order(c, env, t) ==
    Finish(order_with_auth(c, env, t, get_future_tr_id(c, "TTTO0106U", "VTTO0106U")), "flag")

future_get_balance(c, env, t) ==
    Finish(get_with_auth(c, env, t, get_future_tr_id(c, "TTTO5201R", "VTTO5201R")), "list")

future_get_deposit(c, env, t) ==
    Finish(get_with_auth(c, env, t, get_future_tr_id(c, "TTTO5300R", "VTTO5300R")), "single")

future_get_executions(c, env, t) ==
    Finish(get_with_auth(c, env, t, get_future_tr_id(c, "TTTO5107R", "VTTO5107R")), "list")

(***************************************************************************)
(* kis/bond.rs                                                             *)
(***************************************************************************)
bond_buy(c, env, t) ==
    Finish(post_without_auth(c, env, t, TrId(c, "TTCB1101U", "VTCB1101U")), "single")

bond_sell(c, env, t) ==
    Finish(post_without_auth(c, env, t, TrId(c, "TTCB1201U", "VTCB1201U")), "single")

bond_revise_order(c, env, t) ==
    Finish(post_without_auth(c, env, t, TrId(c, "TTCB1301U", "VTCB1301U")), "single")

bond_cancel_order(c, env, t) ==
    Finish(post_without_auth(c, env, t, TrId(c, "TTCB1301U", "VTCB1301U")), "single")

bond_get_balance(c, env, t) ==
    Finish(get_without_auth(c, env, t, TrId(c, "CTCB8001R", "VTCB8001R")), "list")

bond_get_quote(c, env, t) ==
    Finish(get_without_auth(c, env, t, TrId(c, "CTCB3001R", "VTCB3001R")), "single")

bond_get_price(c, env, t) ==
    Finish(get_without_auth(c, env, t, TrId(c, "CTCB3002R", "VTCB3002R")), "single")

(***************************************************************************)
(* kis/overseas_future.rs                                                  *)
(***************************************************************************)
NEW_BUY == "OTFM3001U"
NEW_SELL == "OTFM3002U"
CLOSE_BUY == "OTFM3003U"
CLOSE_SELL == "OTFM3004U"
MODIFY_CANCEL == "OTFM3005U"
INQUIRE_UNSETTLED == "OTFM3304R"
INQUIRE_DEPOSIT == "OTFM3306R"
INQUIRE_EXECUTION == "OTFM3307R"

PositionTypes == {"New", "Close"}
buy_tr_id(position_type) == IF position_type = "New" THEN NEW_BUY ELSE CLOSE_BUY
sell_tr_id(position_type) == IF position_type = "New" THEN NEW_SELL ELSE CLOSE_SELL

overseas_future_order(c, env, t, side, position_type) ==
    Finish(order_without_auth(c, env, t,
                              IF side = "Buy" THEN buy_tr_id(position_type)
                              ELSE sell_tr_id(position_type)),
           "order_result")

overseas_future_modify_cancel_internal(c, env, t) ==
    Finish(order_without_auth(c, env, t, MODIFY_CANCEL), "order_result")

overseas_future_cancel(c, env, t) == overseas_future_modify_cancel_internal(c, env, t)

overseas_future_modify(c, env, t) == overseas_future_modify_cancel_internal(c, env, t)

overseas_future_inquire_unsettled(c, env, t) ==
    Finish(get_without_auth(c, env, t, INQUIRE_UNSETTLED), "list")

overseas_future_inquire_deposit(c, env, t) ==
    Finish(get_without_auth(c, env, t, INQUIRE_DEPOSIT), "single")

overseas_future_inquire_execution(c, env, t) ==
    Finish(get_without_auth(c, env, t, INQUIRE_EXECUTION), "list")

(***************************************************************************)
(* The environment: what the host may answer to each kind of request.      *)
(***************************************************************************)
LongestLifetime ==
    HttpResponse(200, None, [access_token |-> "tokC", token_type |-> "Bearer",
                             expires_in |-> U64_MAX])

TokenResponses ==
    { HttpResponse(401, None, NotJson),
      HttpResponse(200, None, [access_token |-> "tokA", token_type |-> "Bearer"]),
      HttpResponse(200, None, [access_token |-> "tokA", token_type |-> "Bearer",
                               expires_in |-> 302]),
      HttpResponse(200, None, [access_token |-> "tokB", token_type |-> "Bearer",
                               expires_in |-> 0]),
      LongestLifetime }

HashkeyResponses ==
    { HttpResponse(500, None, NotJson),
      HttpResponse(200, None, [msg |-> "no hash"]),
      HttpResponse(200, None, [HASH |-> "h_top"]),
      HttpResponse(200, None, [BODY |-> [HASH |-> "h_nested"]]) }

Payload == [ODNO |-> "0000117057", ORD_TMD |-> "121052"]
Item ==
    [pdno |-> "005930", prdt_name |-> "Samsung Electronics", hldg_qty |-> "10",
     pchs_avg_pric |-> "70000", prpr |-> "71000", evlu_pfls_amt |-> "10000",
     evlu_pfls_rt |-> "1", evlu_amt |-> "710000"]
Summary == [tot_evlu_amt |-> "1000", dnca_tot_amt |-> "500", ord_psbl_cash |-> "400",
            evlu_pfls_smtl_amt |-> "0", evlu_pfls_rt |-> "0"]

DomainBodies ==
    { NotJson,
      [rt_cd |-> "0", msg1 |-> "ok"],
      [rt_cd |-> "0", msg_cd |-> "MCA00000", msg1 |-> "ok"],
      [rt_cd |-> "0", msg_cd |-> "MCA00000", msg1 |-> "ok", output |-> Payload],
      [rt_cd |-> "0", msg_cd |-> "MCA00000", msg1 |-> "ok", output1 |-> << Item >>],
      [rt_cd |-> "0", msg_cd |-> "MCA00000", msg1 |-> "ok", output1 |-> << Item >>,
       output2 |-> << Summary >>],
      [rt_cd |-> "7", msg_cd |-> "APBK0013", msg1 |-> "Invalid account"],
      [rt_cd |-> "7", msg_cd |-> "APBK0013", msg1 |-> "Invalid account",
       output |-> Payload, output1 |-> << Item >>, output2 |-> << Summary >>],
      [rt_cd |-> "00", msg_cd |-> "APBK0919", msg1 |-> "Rejected", output |-> Payload],
      [rt_cd |-> "E", msg_cd |-> "EGW00123", msg1 |-> "Token expired"] }

DomainResponses ==
    TransportFailures \cup { HttpResponse(200, None, body) : body \in DomainBodies }

\* a request the operation never issues is answered by nobody
Unasked == HttpResponse(0, None, NotJson)

Min(a, b) == IF a < b THEN a ELSE b
RoundTrips(t) == 0 .. Min(MaxRoundTrip, MaxNow - t)

\* the build's overflow-checks setting shows only where an addition overflows
Envs(tokens, hashkeys, domains, dts) ==
    [token : tokens, hashkey : hashkeys, domain : domains, dt : dts,
     overflow_checks : {FALSE}]
    \cup [token : tokens \cap {LongestLifetime}, hashkey : hashkeys, domain : domains,
          dt : dts, overflow_checks : {TRUE}]

AuthEnvs(t) == Envs(TokenResponses, {Unasked}, {Unasked}, RoundTrips(t))
OrderEnvs(t) == Envs(TokenResponses, HashkeyResponses, DomainResponses, RoundTrips(t))
SignedEnvs(t) == Envs({Unasked}, HashkeyResponses, DomainResponses, {0})
ReadEnvs(t) == Envs(TokenResponses, {Unasked}, DomainResponses, RoundTrips(t))
PlainEnvs(t) == Envs({Unasked}, {Unasked}, DomainResponses, {0})

(***************************************************************************)
(* lib.rs: the plugin shell.  Every entry point takes the lock on STATE,   *)
(* reads its request, runs to its response and releases the lock; it is a  *)
(* function of the BrokerState, the request, the answers of the network    *)
(* and the clock.                                                          *)
(***************************************************************************)
MaxOrderId == 2
MaxThreads == 2

BrokerState_new ==
    [client |-> None, account_no |-> "", is_paper |-> TRUE, orders |-> << >>,
     next_order_id |-> 1, poisoned |-> FALSE]

\* a thread of the host: the entry point it called, the request, the statement
\* it is about to execute (0: it is in no entry point) and what it has read of
\* the state through the guard
NotRunning == [op |-> "idle", request |-> None, pc |-> 0, seen |-> None]
NoThreads == [t \in 1..MaxThreads |-> NotRunning]

NotEntered == [op |-> "idle", pre |-> None, at |-> 0, request |-> None, log |-> << >>,
               failure |-> None, response |-> None]

\* what an entry point leaves behind: the state, the clock, the requests it
\* issued, the error of the client (if one was returned) and the response
Left(st, t, log, failure, response) ==
    [state |-> st, now |-> t, log |-> log, failure |-> failure, response |-> response]

\* a panic under the lock: the call traps and the lock is never given back
\* in working order, so that STATE.lock().unwrap() fails from then on
Trap == [trap |-> "panicked"]
Trapped(st, t, log) == Left([st EXCEPT !.poisoned = TRUE], t, log, None, Trap)

KisConfig_new(app_key, app_secret, account_no, is_paper) ==
    [app_key |-> app_key, app_secret |-> app_secret, account_no |-> account_no,
     is_paper |-> is_paper]

\* config_json.get(f).and_then(as_str).unwrap_or_default()
StrOrDefault(config_json, f) == IF Has(config_json, f) THEN config_json[f] ELSE ""

\* a variant of initialize: the shell keeps the flag it had
initialize_keeping_flag(st, config_json, t) ==
    LET app_key == StrOrDefault(config_json, "app_key")
        app_secret == StrOrDefault(config_json, "app_secret")
        account_no == StrOrDefault(config_json, "account_no")
        is_paper == IF Has(config_json, "is_paper") THEN config_json.is_paper ELSE TRUE
    IN  IF st.poisoned THEN Trapped(st, t, << >>)
        ELSE IF app_key = "" \/ app_secret = "" \/ account_no = "" \/ Len(account_no) # 10
        THEN Left(st, t, << >>, None, [success |-> FALSE, error |-> "invalid"])
        ELSE Left([st EXCEPT !.client = Some(KisClient_new(
                                 KisConfig_new(app_key, app_secret, account_no, is_paper))),
                             !.account_no = account_no],
                  t, << >>, None, [success |-> TRUE, message |-> "Initialized KIS broker"])

\* a variant of initialize: a configuration that fails validation uninstalls the client
initialize_resetting(st, config_json, t) ==
    LET app_key == StrOrDefault(config_json, "app_key")
        app_secret == StrOrDefault(config_json, "app_secret")
        account_no == StrOrDefault(config_json, "account_no")
        is_paper == IF Has(config_json, "is_paper") THEN config_json.is_paper ELSE TRUE
    IN  IF st.poisoned THEN Trapped(st, t, << >>)
        ELSE IF app_key = "" \/ app_secret = "" \/ account_no = "" \/ Len(account_no) # 10
        THEN Left([st EXCEPT !.client = None], t, << >>, None,
                  [success |-> FALSE, error |-> "invalid"])
        ELSE Left([st EXCEPT !.client = Some(KisClient_new(
                                 KisConfig_new(app_key, app_secret, account_no, is_paper))),
                             !.account_no = account_no,
                             !.is_paper = is_paper],
                  t, << >>, None, [success |-> TRUE, message |-> "Initialized KIS broker"])

\* a variant of initialize: the new client inherits the credential of the old one
initialize_keeping_token(st, config_json, t) ==
    LET app_key == StrOrDefault(config_json, "app_key")
        app_secret == StrOrDefault(config_json, "app_secret")
        account_no == StrOrDefault(config_json, "account_no")
        is_paper == IF Has(config_json, "is_paper") THEN config_json.is_paper ELSE TRUE
        new == KisClient_new(KisConfig_new(app_key, app_secret, account_no, is_paper))
    IN  IF st.poisoned THEN Trapped(st, t, << >>)
        ELSE IF app_key = "" \/ app_secret = "" \/ account_no = "" \/ Len(account_no) # 10
        THEN Left(st, t, << >>, None, [success |-> FALSE, error |-> "invalid"])
        ELSE Left([st EXCEPT !.client = Some(IF st.client = None THEN new
                                             ELSE [new EXCEPT !.token = st.client[1].token]),
                             !.account_no = account_no,
                             !.is_paper = is_paper],
                  t, << >>, None, [success |-> TRUE, message |-> "Initialized KIS broker"])

initialize(st, config_json, t) ==
    LET app_key == StrOrDefault(config_json, "app_key")
        app_secret == StrOrDefault(config_json, "app_secret")
        account_no == StrOrDefault(config_json, "account_no")
        is_paper == IF Has(config_json, "is_paper") THEN config_json.is_paper ELSE TRUE
    IN  IF st.poisoned THEN Trapped(st, t, << >>)
        ELSE IF app_key = "" \/ app_secret = "" \/ account_no = ""
        THEN Left(st, t, << >>, None,
                  [success |-> FALSE,
                   error |-> "Missing required configuration: app_key, app_secret, or account_no"])
        ELSE IF Len(account_no) # 10
        THEN Left(st, t, << >>, None,
                  [success |-> FALSE,
                   error |-> "account_no must be 10 digits (CANO 8 + ACNT_PRDT_CD 2)"])
        ELSE Left([st EXCEPT !.client = Some(KisClient_new(
                                 KisConfig_new(app_key, app_secret, account_no, is_paper))),
                             !.account_no = account_no,
                             !.is_paper = is_paper],
                  t, << >>, None,
                  [success |-> TRUE,
                   message |-> << "Initialized KIS broker",
                                  IF is_paper THEN "paper" ELSE "production" >>])

\* str::parse::<f64>() on the amounts the broker sends
ParseF64(s) ==
    CASE s = "0" -> Some(0)
      [] s = "1" -> Some(1)
      [] s = "10" -> Some(10)
      [] s = "400" -> Some(400)
      [] s = "500" -> Some(500)
      [] s = "1000" -> Some(1000)
      [] s = "10000" -> Some(10000)
      [] s = "70000" -> Some(70000)
      [] s = "71000" -> Some(71000)
      [] OTHER -> None

\* field.as_ref().and_then(|s| s.parse().ok()).unwrap_or(0.0)
AmountOrZero(field) ==
    IF field = None THEN 0
    ELSE IF ParseF64(field[1]) = None THEN 0
    ELSE ParseF64(field[1])[1]

ZeroBalance ==
    [currency |-> "KRW", total_equity |-> 0, available_cash |-> 0, buying_power |-> 0,
     locked_cash |-> 0]

AccountBalance(summary) ==
    LET total_equity == AmountOrZero(summary.tot_evlu_amt)
        available_cash == AmountOrZero(summary.ord_psbl_cash)
        deposit == AmountOrZero(summary.dnca_tot_amt)
    IN  [currency |-> "KRW", total_equity |-> total_equity,
         available_cash |-> available_cash, buying_power |-> available_cash,
         locked_cash |-> deposit - available_cash]

PositionFields ==
    << "hldg_qty", "pchs_avg_pric", "prpr", "evlu_pfls_amt", "evlu_pfls_rt" >>

\* the closure of filter_map: None as soon as a field is absent or not a number
Position(item) ==
    IF ~Has(item, "pdno") THEN None
    ELSE IF \E i \in 1..Len(PositionFields) :
                \/ ~Has(item, PositionFields[i])
                \/ ParseF64(item[PositionFields[i]]) = None
    THEN None
    ELSE Some([symbol_id |-> item.pdno,
               quantity |-> ParseF64(item.hldg_qty)[1],
               average_price |-> ParseF64(item.pchs_avg_pric)[1],
               current_price |-> ParseF64(item.prpr)[1],
               unrealized_pnl |-> ParseF64(item.evlu_pfls_amt)[1],
               unrealized_pnl_percent |-> ParseF64(item.evlu_pfls_rt)[1]])

RECURSIVE Positions(_)
Positions(items) ==
    IF items = << >> THEN << >>
    ELSE Position(Head(items)) \o Positions(Tail(items))

AccountSummary(st, balance, positions, t) ==
    [id |-> st.account_no,
     name |-> << "KIS", IF st.is_paper THEN "Paper" ELSE "Live", "Account" >>,
     broker_id |-> "broker-korea", is_paper |-> st.is_paper, balance |-> balance,
     positions |-> positions, updated_at |-> t, extensions |-> None]

create_error_account(error, t) ==
    [id |-> "error", name |-> << "Error", error >>, broker_id |-> "broker-korea",
     is_paper |-> TRUE, balance |-> ZeroBalance, positions |-> << >>, updated_at |-> t,
     extensions |-> None]

get_accounts(st, env, t) ==
    IF st.poisoned THEN Trapped(st, t, << >>)
    ELSE IF st.client = None
    THEN Left(st, t, << >>, None,
              [accounts |-> << create_error_account("Plugin not initialized", t) >>])
    ELSE LET o == domestic_balance(st.client[1], env, t)
             after == [st EXCEPT !.client = Some(o.client)]
         IN  IF o.result = Panic THEN Trapped(st, o.now, o.log)
             ELSE IF o.result.ok
             THEN Left(after, o.now, o.log, None,
                       [accounts |-> << AccountSummary(after,
                                            AccountBalance(o.result.value.summary),
                                            Positions(o.result.value.items), o.now) >>])
             ELSE Left(after, o.now, o.log, Some(o.result.err),
                       [accounts |-> << AccountSummary(after, ZeroBalance, << >>, o.now) >>])

\* a variant of get_positions: the positions are fetched whatever account is asked for
get_positions_any_account(st, req, env, t) ==
    IF st.poisoned THEN Trapped(st, t, << >>)
    ELSE IF st.client = None THEN Left(st, t, << >>, None, [positions |-> << >>])
    ELSE LET o == domestic_balance(st.client[1], env, t)
             after == [st EXCEPT !.client = Some(o.client)]
         IN  IF o.result = Panic THEN Trapped(st, o.now, o.log)
             ELSE IF o.result.ok
             THEN Left(after, o.now, o.log, None,
                       [positions |-> Positions(o.result.value.items)])
             ELSE Left(after, o.now, o.log, Some(o.result.err), [positions |-> << >>])

get_positions(st, req, env, t) ==
    IF st.poisoned THEN Trapped(st, t, << >>)
    ELSE IF req.account_id # st.account_no THEN Left(st, t, << >>, None, [positions |-> << >>])
    ELSE IF st.client = None THEN Left(st, t, << >>, None, [positions |-> << >>])
    ELSE LET o == domestic_balance(st.client[1], env, t)
             after == [st EXCEPT !.client = Some(o.client)]
         IN  IF o.result = Panic THEN Trapped(st, o.now, o.log)
             ELSE IF o.result.ok
             THEN Left(after, o.now, o.log, None,
                       [positions |-> Positions(o.result.value.items)])
             ELSE Left(after, o.now, o.log, Some(o.result.err), [positions |-> << >>])

\* impl Display for KisError
Display(e) ==
    CASE e.kind = "Auth" -> << "Auth error: ", e.message >>
      [] e.kind = "Api" -> << "API error [", e.code, "]: ", e.message >>
      [] e.kind = "Network" -> << "Network error: ", e.message >>
      [] e.kind = "Parse" -> << "Parse error: ", e.message >>
      [] e.kind = "Validation" -> << "Validation error: ", e.message >>

\* format!("kr_{}", next_order_id)
KrId(next_order_id) == "kr_" \o ToString(next_order_id)

create_error_order(req, error, t) ==
    [id |-> "error_" \o ToString(t), request |-> req.order, status |-> "Rejected",
     created_at |-> t, updated_at |-> t, average_filled_price |-> None,
     filled_quantity |-> 0, extensions |-> Some([error |-> error])]

\* HashMap::insert: the entry of the key is added or replaced
Insert(orders, order_id, order) ==
    [id \in DOMAIN orders \cup {order_id} |-> IF id = order_id THEN order ELSE orders[id]]

\* a variant of submit_order: the order is recorded as submitted whatever the client returns
submit_order_optimistic(st, req, env, t) ==
    IF st.poisoned THEN Trapped(st, t, << >>)
    ELSE IF st.client = None
    THEN Left(st, t, << >>, None, [order |-> create_error_order(req, "Plugin not initialized", t)])
    ELSE LET o == IF req.order.side = "Buy" THEN domestic_buy(st.client[1], env, t)
                  ELSE domestic_sell(st.client[1], env, t)
             order_id == IF o.result.ok /\ Has(o.result.value, "ODNO") THEN o.result.value.ODNO
                         ELSE KrId(st.next_order_id)
             order == [id |-> order_id, request |-> req.order, status |-> "Submitted",
                       created_at |-> o.now, updated_at |-> o.now,
                       average_filled_price |-> None, filled_quantity |-> 0,
                       extensions |-> Some(<< >>)]
         IN  IF o.result = Panic THEN Trapped(st, o.now, o.log)
             ELSE Left([st EXCEPT !.client = Some(o.client),
                                  !.next_order_id = @ + 1,
                                  !.orders = Insert(@, order_id, order)],
                       o.now, o.log, IF o.result.ok THEN None ELSE Some(o.result.err),
                       [order |-> order])

\* a variant of submit_order: the counter advances only when its value was used
submit_order_counting_synthetic(st, req, env, t) ==
    IF st.poisoned THEN Trapped(st, t, << >>)
    ELSE IF st.client = None
    THEN Left(st, t, << >>, None, [order |-> create_error_order(req, "Plugin not initialized", t)])
    ELSE LET o == IF req.order.side = "Buy" THEN domestic_buy(st.client[1], env, t)
                  ELSE domestic_sell(st.client[1], env, t)
             after == [st EXCEPT !.client = Some(o.client)]
         IN  IF o.result = Panic THEN Trapped(st, o.now, o.log)
             ELSE IF o.result.ok
             THEN LET numbered == Has(o.result.value, "ODNO")
                      order_id == IF numbered THEN o.result.value.ODNO
                                  ELSE KrId(st.next_order_id)
                      order == [id |-> order_id, request |-> req.order,
                                status |-> "Submitted", created_at |-> o.now,
                                updated_at |-> o.now, average_filled_price |-> None,
                                filled_quantity |-> 0, extensions |-> Some(<< >>)]
                  IN  Left([after EXCEPT !.next_order_id = IF numbered THEN @ ELSE @ + 1,
                                         !.orders = Insert(@, order_id, order)],
                           o.now, o.log, None, [order |-> order])
             ELSE Left(after, o.now, o.log, Some(o.result.err),
                       [order |-> create_error_order(req, << "Order failed: ",
                                                             Display(o.result.err) >>, o.now)])

\* a variant of submit_order: the rejected order is kept in the map as well
submit_order_recording_rejected(st, req, env, t) ==
    IF st.poisoned THEN Trapped(st, t, << >>)
    ELSE IF st.client = None
    THEN Left(st, t, << >>, None, [order |-> create_error_order(req, "Plugin not initialized", t)])
    ELSE LET o == IF req.order.side = "Buy" THEN domestic_buy(st.client[1], env, t)
                  ELSE domestic_sell(st.client[1], env, t)
             after == [st EXCEPT !.client = Some(o.client)]
         IN  IF o.result = Panic THEN Trapped(st, o.now, o.log)
             ELSE IF o.result.ok
             THEN LET order_id == IF Has(o.result.value, "ODNO") THEN o.result.value.ODNO
                                  ELSE KrId(st.next_order_id)
                      order == [id |-> order_id, request |-> req.order,
                                status |-> "Submitted", created_at |-> o.now,
                                updated_at |-> o.now, average_filled_price |-> None,
                                filled_quantity |-> 0, extensions |-> Some(<< >>)]
                  IN  Left([after EXCEPT !.next_order_id = @ + 1,
                                         !.orders = Insert(@, order_id, order)],
                           o.now, o.log, None, [order |-> order])
             ELSE LET rejected == create_error_order(req, << "Order failed: ",
                                                             Display(o.result.err) >>, o.now)
                  IN  Left([after EXCEPT !.orders = Insert(@, rejected.id, rejected)],
                           o.now, o.log, Some(o.result.err), [order |-> rejected])

submit_order(st, req, env, t) ==
    IF st.poisoned THEN Trapped(st, t, << >>)
    ELSE IF st.client = None
    THEN Left(st, t, << >>, None, [order |-> create_error_order(req, "Plugin not initialized", t)])
    ELSE LET o == IF req.order.side = "Buy" THEN domestic_buy(st.client[1], env, t)
                  ELSE domestic_sell(st.client[1], env, t)
             after == [st EXCEPT !.client = Some(o.client)]
         IN  IF o.result = Panic THEN Trapped(st, o.now, o.log)
             ELSE IF o.result.ok
             THEN LET kis_response == o.result.value
                      order_id == IF Has(kis_response, "ODNO") THEN kis_response.ODNO
                                  ELSE KrId(st.next_order_id)
                      order == [id |-> order_id, request |-> req.order,
                                status |-> "Submitted", created_at |-> o.now,
                                updated_at |-> o.now, average_filled_price |-> None,
                                filled_quantity |-> 0,
                                extensions |->
                                    Some(IF Has(kis_response, "ORD_TMD")
                                         THEN [kis_order_time |-> kis_response.ORD_TMD]
                                         ELSE << >>)]
                  IN  Left([after EXCEPT !.next_order_id = @ + 1,
                                         !.orders = Insert(@, order_id, order)],
                           o.now, o.log, None, [order |-> order])
             ELSE Left(after, o.now, o.log, Some(o.result.err),
                       [order |-> create_error_order(req, << "Order failed: ",
                                                             Display(o.result.err) >>, o.now)])

(***************************************************************************)
(* The state machine.  A caller invokes one operation at a time on the     *)
(* client (every operation is a blocking call on &self or &mut self); the  *)
(* call is kept, with the client and the clock it started from, until the  *)
(* caller takes the result.                                                *)
(***************************************************************************)
Idle == [op |-> "idle", pre |-> None, at |-> 0, log |-> << >>, result |-> None]
NotApplied == [fn |-> "none", given |-> None, returned |-> None]

Init ==
    /\ client \in { KisClient_new(KisConfig(is_paper)) : is_paper \in BOOLEAN }
    /\ now = 0
    /\ call = Idle
    /\ applied = NotApplied
    /\ state = BrokerState_new
    /\ entry = NotEntered
    /\ lock = None
    /\ threads = NoThreads

Invoke(op, o) ==
    /\ call.op = "idle"
    /\ client' = o.client
    /\ now' = o.now
    /\ call' = [op |-> op, pre |-> Some(client), at |-> now, log |-> o.log,
                result |-> Some(o.result)]
    /\ UNCHANGED <<applied, state, entry, lock, threads>>

Return ==
    /\ call.op # "idle"
    /\ call' = Idle
    /\ UNCHANGED <<client, now, applied, state, entry, lock, threads>>

Tick ==
    /\ call.op = "idle"
    /\ now < MaxNow
    /\ now' = now + 1
    /\ UNCHANGED <<client, call, applied, state, entry, lock, threads>>

EnsureAuth == \E env \in AuthEnvs(now) : Invoke("ensure_auth", ensure_auth(client, env, now))
Authenticate == \E env \in AuthEnvs(now) : Invoke("authenticate", authenticate(client, env, now))

DomesticBuy == \E env \in OrderEnvs(now) : Invoke("domestic_buy", domestic_buy(client, env, now))
DomesticSell == \E env \in OrderEnvs(now) : Invoke("domestic_sell", domestic_sell(client, env, now))
DomesticReviseOrder ==
    \E env \in OrderEnvs(now) :
        Invoke("domestic_revise_order", domestic_revise_order(client, env, now))
DomesticCancelOrder ==
    \E env \in OrderEnvs(now) :
        Invoke("domestic_cancel_order", domestic_cancel_order(client, env, now))
DomesticBalance ==
    \E env \in ReadEnvs(now) : Invoke("domestic_balance", domestic_balance(client, env, now))
DomesticCurrentPrice ==
    \E env \in ReadEnvs(now) :
        Invoke("domestic_current_price", domestic_current_price(client, env, now))

OverseasOrder ==
    \E env \in OrderEnvs(now), exchange \in {"NASDAQ", "SEHK"}, side \in OrderSides :
        Invoke("overseas_order", overseas_order(client, env, now, exchange, side))
OverseasBalance ==
    \E env \in ReadEnvs(now) : Invoke("overseas_balance", overseas_balance(client, env, now))
OverseasPrice ==
    \E env \in ReadEnvs(now) : Invoke("overseas_price", overseas_price(client, env, now))

FutureOrder ==
    \E env \in OrderEnvs(now), action \in FutureOrderActions :
        Invoke("future_order", future_order(client, env, now, action))
FutureModifyOrder ==
    \E env \in OrderEnvs(now) :
        Invoke("future_modify_order", future_modify_order(client, env, now))
FutureCancelOrder ==
    \E env \in OrderEnvs(now) :
        Invoke("future_cancel_order", future_cancel_order(client, env, now))
FutureGetBalance ==
    \E env \in ReadEnvs(now) : Invoke("future_get_balance", future_get_balance(client, env, now))
FutureGetDeposit ==
    \E env \in ReadEnvs(now) : Invoke("future_get_deposit", future_get_deposit(client, env, now))
FutureGetExecutions ==
    \E env \in ReadEnvs(now) :
        Invoke("future_get_executions", future_get_executions(client, env, now))

BondBuy == \E env \in PlainEnvs(now) : Invoke("bond_buy", bond_buy(client, env, now))
BondSell == \E env \in PlainEnvs(now) : Invoke("bond_sell", bond_sell(client, env, now))
BondReviseOrder ==
    \E env \in PlainEnvs(now) : Invoke("bond_revise_order", bond_revise_order(client, env, now))
BondCancelOrder ==
    \E env \in PlainEnvs(now) : Invoke("bond_cancel_order", bond_cancel_order(client, env, now))
BondGetBalance ==
    \E env \in PlainEnvs(now) : Invoke("bond_get_balance", bond_get_balance(client, env, now))
BondGetQuote ==
    \E env \in PlainEnvs(now) : Invoke("bond_get_quote", bond_get_quote(client, env, now))
BondGetPrice ==
    \E env \in PlainEnvs(now) : Invoke("bond_get_price", bond_get_price(client, env, now))

OverseasFutureOrder ==
    \E env \in SignedEnvs(now), side \in OrderSides, position_type \in PositionTypes :
        Invoke("overseas_future_order",
               overseas_future_order(client, env, now, side, position_type))
OverseasFutureCancel ==
    \E env \in SignedEnvs(now) :
        Invoke("overseas_future_cancel", overseas_future_cancel(client, env, now))
OverseasFutureModify ==
    \E env \in SignedEnvs(now) :
        Invoke("overseas_future_modify", overseas_future_modify(client, env, now))
OverseasFutureInquireUnsettled ==
    \E env \in PlainEnvs(now) :
        Invoke("overseas_future_inquire_unsettled",
               overseas_future_inquire_unsettled(client, env, now))
OverseasFutureInquireDeposit ==
    \E env \in PlainEnvs(now) :
        Invoke("overseas_future_inquire_deposit",
               overseas_future_inquire_deposit(client, env, now))
OverseasFutureInquireExecution ==
    \E env \in PlainEnvs(now) :
        Invoke("overseas_future_inquire_execution",
               overseas_future_inquire_execution(client, env, now))

Next ==
    \/ EnsureAuth \/ Authenticate
    \/ DomesticBuy \/ DomesticSell \/ DomesticReviseOrder \/ DomesticCancelOrder
    \/ DomesticBalance \/ DomesticCurrentPrice
    \/ OverseasOrder \/ OverseasBalance \/ OverseasPrice
    \/ FutureOrder \/ FutureModifyOrder \/ FutureCancelOrder
    \/ FutureGetBalance \/ FutureGetDeposit \/ FutureGetExecutions
    \/ BondBuy \/ BondSell \/ BondReviseOrder \/ BondCancelOrder
    \/ BondGetBalance \/ BondGetQuote \/ BondGetPrice
    \/ OverseasFutureOrder \/ OverseasFutureCancel \/ OverseasFutureModify
    \/ OverseasFutureInquireUnsettled \/ OverseasFutureInquireDeposit
    \/ OverseasFutureInquireExecution
    \/ Tick
    \/ Return

Spec == Init /\ [][Next]_vars

(***************************************************************************)
(* The host boundary: the packed word a call across it returns.  i32 is    *)
(* kept half as wide as u64, 15 bits, so that a word holds two of them.    *)
(***************************************************************************)
I32_MODULUS == 2^15
I32_MAX == (I32_MODULUS \div 2) - 1
I32_MIN == -(I32_MODULUS \div 2)

\* `x as u64` of an i32: sign extension
as_u64(x) == x % U64_MODULUS
\* `v as i32` of a u64: truncation to the low half, read as two's complement
as_i32(v) ==
    LET low == v % I32_MODULUS
    IN  IF low > I32_MAX THEN low - I32_MODULUS ELSE low

RECURSIVE BitOr(_, _)
BitOr(a, b) ==
    IF a = 0 THEN b
    ELSE IF b = 0 THEN a
    ELSE (IF a % 2 = 1 \/ b % 2 = 1 THEN 1 ELSE 0) + 2 * BitOr(a \div 2, b \div 2)

\* v << 32
shl32(v) == (v % I32_MODULUS) * I32_MODULUS
\* v >> 32 and v & 0xFFFFFFFF
shr32(v) == v \div I32_MODULUS
low32(v) == v % I32_MODULUS

\* a variant that puts the length in the high half
serialize_response_swapped(out_ptr, out_len) ==
    BitOr(shl32(as_u64(out_len)), as_u64(out_ptr) % I32_MODULUS)

\* serialize_response: ((out_ptr as u64) << 32) | (out_len as u64)
serialize_response(out_ptr, out_len) == BitOr(shl32(as_u64(out_ptr)), as_u64(out_len))

\* execute: res_ptr = (result_packed >> 32) as i32, res_len = (result_packed & 0xFFFFFFFF) as i32
unpack(result_packed) ==
    [res_ptr |-> as_i32(shr32(result_packed)), res_len |-> as_i32(low32(result_packed))]

NullResponse == HttpResponse(0, Some("Host function returned null response"), NotJson)
UnparsedResponse == HttpResponse(0, Some("Failed to parse response"), NotJson)

\* a variant that looks at the address alone
execute_unless_null_address(result_packed, stored) ==
    LET u == unpack(result_packed)
    IN  IF u.res_ptr = 0
        THEN [response |-> NullResponse, read |-> { }]
        ELSE [response |-> IF stored = None THEN UnparsedResponse ELSE stored[1],
              read |-> { << u.res_ptr, u.res_len >> }]

\* execute, from the word http_request returned: the response, and the slices
\* of memory it read.  `stored` is the HttpResponse the bytes of the slice
\* decode to, None when they decode to none.
execute(result_packed, stored) ==
    LET u == unpack(result_packed)
    IN  IF u.res_ptr = 0 \/ u.res_len = 0
        THEN [response |-> NullResponse, read |-> { }]
        ELSE [response |-> IF stored = None THEN UnparsedResponse ELSE stored[1],
              read |-> { << u.res_ptr, u.res_len >> }]

(***************************************************************************)
(* The functions of the boundary, each applied to inputs of its domain.    *)
(***************************************************************************)
\* addresses alloc can return, lengths a Vec<u8> can have
Addresses == { I32_MIN, I32_MIN + 1, -2, -1, 0, 1, 2, 1024, I32_MAX - 1, I32_MAX }
Lengths == { 0, 1, 2, 3, 64, 1024, I32_MAX - 1, I32_MAX }
\* words http_request can return: any u64
PackedWords ==
    { 0, 1, 64, I32_MODULUS - 1, I32_MODULUS, I32_MODULUS + 64, 2 * I32_MODULUS,
      1024 * I32_MODULUS, 1024 * I32_MODULUS + 64, 1024 * I32_MODULUS + I32_MAX,
      U64_MODULUS - I32_MODULUS, U64_MAX }
StoredResponses ==
    { None, Some(HttpResponse(200, None, [rt_cd |-> "0", msg_cd |-> "MCA00000", msg1 |-> "ok"])),
      Some(HttpResponse(500, None, NotJson)) }

Statuses == { 0, 199, 200, 201, 299, 300, 401, 500 }
ErrorMarkers == { None, Some("connection reset") }
Answers(bodies) ==
    { HttpResponse(status, error, body) :
        status \in Statuses, error \in ErrorMarkers, body \in bodies }
TokenBodies ==
    { NotJson,
      [access_token |-> "tokA", token_type |-> "Bearer", expires_in |-> 302] }
HashkeyBodies ==
    { NotJson,
      [msg |-> "no hash"],
      [HASH |-> "h_top"],
      [BODY |-> [HASH |-> "h_nested"]],
      [HASH |-> "h_top", BODY |-> [HASH |-> "h_nested"]],
      [BODY |-> [msg |-> "no hash"]],
      [HASH |-> "h_top", BODY |-> [msg |-> "no hash"]] }

\* a client that holds a credential, as authenticate leaves it
Authenticated(c) ==
    authenticate(c, [token |-> HttpResponse(200, None,
                                [access_token |-> "tokA", token_type |-> "Bearer",
                                 expires_in |-> 302]),
                     hashkey |-> Unasked, domain |-> Unasked, dt |-> 0,
                     overflow_checks |-> FALSE], 0).client

HostInit ==
    /\ client \in { Authenticated(KisClient_new(KisConfig(is_paper))) : is_paper \in BOOLEAN }
    /\ now = 0
    /\ call = Idle
    /\ applied = NotApplied
    /\ state = BrokerState_new
    /\ entry = NotEntered
    /\ lock = None
    /\ threads = NoThreads

Apply(fn, input, output) ==
    /\ applied.fn = "none"
    /\ applied' = [fn |-> fn, given |-> Some(input), returned |-> Some(output)]
    /\ UNCHANGED <<client, now, call, state, entry, lock, threads>>

Forget ==
    /\ applied.fn # "none"
    /\ applied' = NotApplied
    /\ UNCHANGED <<client, now, call, state, entry, lock, threads>>

ApplySerializeResponse ==
    \E out_ptr \in Addresses, out_len \in Lengths :
        Apply("serialize_response", << out_ptr, out_len >>,
              serialize_response(out_ptr, out_len))

ApplyExecute ==
    \E result_packed \in PackedWords, stored \in StoredResponses :
        Apply("execute", [result_packed |-> result_packed, stored |-> stored],
              execute(result_packed, stored))

ApplyGetToken ==
    \E resp \in Answers(TokenBodies) : Apply("get_token", resp, get_token(resp, now, FALSE))

ApplyGetHashkey ==
    \E resp \in Answers(HashkeyBodies) : Apply("get_hashkey", resp, get_hashkey(resp))

ApplyGet ==
    \E resp \in Answers({NotJson}) : Apply("get", resp, get(client, "FHKST01010100", resp).result)

ApplyPost ==
    \E resp \in Answers({NotJson}) : Apply("post", resp, post(client, "TTCB1101U", resp).result)

ApplyPostWithHashkey ==
    \E resp \in Answers({NotJson}) :
        Apply("post_with_hashkey", resp,
              post_with_hashkey(client, "TTTC0802U", "h_top", resp).result)

HostNext ==
    \/ ApplySerializeResponse
    \/ ApplyExecute
    \/ ApplyGetToken
    \/ ApplyGetHashkey
    \/ ApplyGet
    \/ ApplyPost
    \/ ApplyPostWithHashkey
    \/ Forget

HostSpec == HostInit /\ [][HostNext]_vars

(***************************************************************************)
(* The plugin as its host drives it: one entry point at a time (each holds *)
(* the lock on STATE from its first statement to its return), on requests  *)
(* the host may send and answers the network may give.                     *)
(***************************************************************************)
PaperConfig ==
    [app_key |-> "key", app_secret |-> "secret", account_no |-> "1234567801",
     is_paper |-> TRUE]

ConfigJsons ==
    { PaperConfig,
      [PaperConfig EXCEPT !.is_paper = FALSE],
      [app_key |-> "key", app_secret |-> "secret", account_no |-> "1234567801"],
      [app_key |-> "key", account_no |-> "1234567801", is_paper |-> FALSE],
      [PaperConfig EXCEPT !.account_no = "12345678"] }

AccountIds == { "1234567801", "error", "" }

OrderRequest(side) ==
    [symbol_id |-> "005930", side |-> side, order_type |-> "Limit", quantity |-> 10,
     limit_price |-> Some(70000), persona_id |-> None]

SubmitOrderRequests == { [order |-> OrderRequest(side)] : side \in {"Buy", "Sell"} }

\* CashOrderResponse: odno and ord_tmd are optional, the broker may leave them out
Unnumbered ==
    HttpResponse(200, None, [rt_cd |-> "0", msg_cd |-> "MCA00000", msg1 |-> "ok",
                             output |-> [ORD_TMD |-> "121052"]])

\* the answers of the network the plugin is driven with: one of each way a
\* request ends
ShellTokenResponses ==
    { HttpResponse(401, None, NotJson),
      HttpResponse(200, None, [access_token |-> "tokA", token_type |-> "Bearer",
                               expires_in |-> 302]),
      LongestLifetime }

ShellHashkeyResponses ==
    { HttpResponse(500, None, NotJson), HttpResponse(200, None, [HASH |-> "h_top"]) }

ShellDomainResponses ==
    { HttpResponse(401, None, NotJson),
      HttpResponse(200, None, NotJson),
      HttpResponse(200, None, [rt_cd |-> "0", msg_cd |-> "MCA00000", msg1 |-> "ok"]),
      HttpResponse(200, None, [rt_cd |-> "0", msg_cd |-> "MCA00000", msg1 |-> "ok",
                               output |-> Payload]),
      HttpResponse(200, None, [rt_cd |-> "0", msg_cd |-> "MCA00000", msg1 |-> "ok",
                               output1 |-> << Item >>, output2 |-> << Summary >>]),
      HttpResponse(200, None, [rt_cd |-> "7", msg_cd |-> "APBK0013",
                               msg1 |-> "Invalid account"]),
      Unnumbered }

FetchEnvs(t) == Envs(ShellTokenResponses, {Unasked}, ShellDomainResponses, RoundTrips(t))
SubmitEnvs(t) ==
    Envs(ShellTokenResponses, ShellHashkeyResponses, ShellDomainResponses, RoundTrips(t))

ShellInit ==
    /\ client = KisClient_new(KisConfig(TRUE))
    /\ now = 0
    /\ call = Idle
    /\ applied = NotApplied
    /\ state = BrokerState_new
    /\ entry = NotEntered
    /\ lock = None
    /\ threads = NoThreads

Enter(op, request, left) ==
    /\ entry.op = "idle"
    /\ state' = left.state
    /\ now' = left.now
    /\ entry' = [op |-> op, pre |-> Some(state), at |-> now, request |-> Some(request),
                 log |-> left.log, failure |-> left.failure,
                 response |-> Some(left.response)]
    /\ UNCHANGED <<client, call, applied, lock, threads>>

TakeResponse ==
    /\ entry.op # "idle"
    /\ entry' = NotEntered
    /\ UNCHANGED <<client, now, call, applied, state, lock, threads>>

Elapse ==
    /\ entry.op = "idle"
    /\ now < MaxNow
    /\ now' = now + 1
    /\ UNCHANGED <<client, call, applied, state, entry, lock, threads>>

Initialize ==
    \E config_json \in ConfigJsons :
        Enter("initialize", config_json, initialize(state, config_json, now))

GetAccounts ==
    \E env \in FetchEnvs(now) : Enter("get_accounts", Unit, get_accounts(state, env, now))

GetPositions ==
    \E account_id \in AccountIds, env \in FetchEnvs(now) :
        Enter("get_positions", [account_id |-> account_id],
              get_positions(state, [account_id |-> account_id], env, now))

SubmitOrder ==
    /\ state.next_order_id <= MaxOrderId
    /\ \E req \in SubmitOrderRequests, env \in SubmitEnvs(now) :
            Enter("submit_order", req, submit_order(state, req, env, now))

ShellNext ==
    \/ Initialize
    \/ GetAccounts
    \/ GetPositions
    \/ SubmitOrder
    \/ TakeResponse
    \/ Elapse

ShellSpec == ShellInit /\ [][ShellNext]_vars

(***************************************************************************)
(* The plugin under concurrent calls.  Each thread of the host runs the    *)
(* entry point it called statement by statement: the lock on STATE is      *)
(* taken by the first statement after the request is parsed, the state is  *)
(* reached through the guard, the body runs (network round-trips and       *)
(* writes of the state included), and the guard is dropped at the return.  *)
(***************************************************************************)
\* a variant of Program: get_accounts gives the lock back before it fetches
Program_releasing_early(op) ==
    IF op = "get_accounts" THEN << "lock", "enter", "unlock", "run" >>
    ELSE << "lock", "enter", "run", "unlock" >>

Program(op) == << "lock", "enter", "run", "unlock" >>

LockConfigs ==
    { PaperConfig, [PaperConfig EXCEPT !.is_paper = FALSE],
      [PaperConfig EXCEPT !.account_no = "12345678"] }

Calls ==
    { [op |-> "initialize", request |-> config_json] : config_json \in LockConfigs }
    \cup { [op |-> "get_accounts", request |-> Unit] }
    \cup { [op |-> "get_positions", request |-> [account_id |-> account_id]] :
              account_id \in { "1234567801", "error" } }
    \cup { [op |-> "submit_order", request |-> req] : req \in SubmitOrderRequests }

LockEnvs ==
    [token : { HttpResponse(401, None, NotJson),
               HttpResponse(200, None, [access_token |-> "tokA", token_type |-> "Bearer",
                                        expires_in |-> 302]) },
     hashkey : { HttpResponse(200, None, [HASH |-> "h_top"]) },
     domain : { HttpResponse(401, None, NotJson),
                HttpResponse(200, None, [rt_cd |-> "0", msg_cd |-> "MCA00000", msg1 |-> "ok",
                                         output |-> Payload]),
                Unnumbered },
     dt : {0}, overflow_checks : {FALSE}]

\* the body of the entry point, on the state the thread reached through the guard
Body(op, st, request, env, t) ==
    CASE op = "initialize" -> initialize(st, request, t)
      [] op = "get_accounts" -> get_accounts(st, env, t)
      [] op = "get_positions" -> get_positions(st, request, env, t)
      [] op = "submit_order" -> submit_order(st, request, env, t)

LockInit ==
    /\ client = KisClient_new(KisConfig(TRUE))
    /\ now = 0
    /\ call = Idle
    /\ applied = NotApplied
    /\ state = BrokerState_new
    /\ entry = NotEntered
    /\ lock = None
    /\ threads = NoThreads

Statement(t) == Program(threads[t].op)[threads[t].pc]
Running(t) == threads[t].pc > 0

\* the thread goes on to its next statement, or leaves the entry point after the last
Advance(t, frame) ==
    threads' = [threads EXCEPT ![t] =
                   IF frame.pc = Len(Program(frame.op)) THEN NotRunning
                   ELSE [frame EXCEPT !.pc = @ + 1]]

\* submit_order calls in progress
Submitting == { t \in 1..MaxThreads : threads[t].op = "submit_order" }

CallEntry(t) ==
    /\ ~Running(t)
    /\ \E c \in Calls :
        /\ c.op = "submit_order"
             => state.next_order_id + Cardinality(Submitting) <= MaxOrderId
        /\ threads' = [threads EXCEPT ![t] =
                          [op |-> c.op, request |-> Some(c.request), pc |-> 1, seen |-> None]]
    /\ UNCHANGED <<client, now, call, applied, state, entry, lock>>

\* STATE.lock(): the thread waits until no thread holds the Mutex
Lock(t) ==
    /\ Running(t) /\ Statement(t) = "lock"
    /\ lock = None
    /\ lock' = Some(t)
    /\ Advance(t, threads[t])
    /\ UNCHANGED <<client, now, call, applied, state, entry>>

Touch(t) ==
    /\ Running(t) /\ Statement(t) = "enter"
    /\ Advance(t, [threads[t] EXCEPT !.seen = Some(state)])
    /\ UNCHANGED <<client, now, call, applied, state, entry, lock>>

Run(t) ==
    /\ Running(t) /\ Statement(t) = "run"
    /\ \E env \in LockEnvs :
        LET frame == threads[t]
            left == Body(frame.op, frame.seen[1], frame.request[1], env, now)
        IN  /\ state' = left.state
            /\ now' = left.now
    /\ Advance(t, [threads[t] EXCEPT !.seen = None])
    /\ UNCHANGED <<client, call, applied, entry, lock>>

\* the MutexGuard is dropped
Unlock(t) ==
    /\ Running(t) /\ Statement(t) = "unlock"
    /\ lock' = IF lock = Some(t) THEN None ELSE lock
    /\ Advance(t, threads[t])
    /\ UNCHANGED <<client, now, call, applied, state, entry>>

LockNext ==
    \E t \in 1..MaxThreads :
        \/ CallEntry(t)
        \/ Lock(t)
        \/ Touch(t)
        \/ Run(t)
        \/ Unlock(t)

LockSpec == LockInit /\ [][LockNext]_vars

(***************************************************************************)
(* What the claims speak about: the call that has just returned.           *)
(***************************************************************************)
Returned == call.op # "idle"
Result == call.result[1]
Pre == call.pre[1]
Fresh == Pre.token = None
Kinds == [i \in DOMAIN call.log |-> call.log[i].kind]
Count(kind) == Cardinality({ i \in DOMAIN call.log : call.log[i].kind = kind })

\* the operations that create, modify or cancel an order, and those that only read
MutatingOps ==
    { "domestic_buy", "domestic_sell", "domestic_revise_order", "domestic_cancel_order",
      "overseas_order", "future_order", "future_modify_order", "future_cancel_order",
      "bond_buy", "bond_sell", "bond_revise_order", "bond_cancel_order",
      "overseas_future_order", "overseas_future_cancel", "overseas_future_modify" }
ReadOps ==
    { "domestic_balance", "domestic_current_price", "overseas_balance", "overseas_price",
      "future_get_balance", "future_get_deposit", "future_get_executions",
      "bond_get_balance", "bond_get_quote", "bond_get_price",
      "overseas_future_inquire_unsettled", "overseas_future_inquire_deposit",
      "overseas_future_inquire_execution" }
DomainOps == MutatingOps \cup ReadOps

\* the mutating operations of the domestic-stock, overseas-stock and domestic-futures modules
RefreshingOrderOps ==
    { "domestic_buy", "domestic_sell", "domestic_revise_order", "domestic_cancel_order",
      "overseas_order", "future_order", "future_modify_order", "future_cancel_order" }

KindRank(kind) == CASE kind = "token" -> 1 [] kind = "hashkey" -> 2 [] kind = "domain" -> 3
KindsAscend ==
    \A i, j \in DOMAIN call.log : i < j => KindRank(Kinds[i]) < KindRank(Kinds[j])

Requests(kind) == { i \in DOMAIN call.log : call.log[i].kind = kind }
DomainSent == Requests("domain") # {}
DomainRequest == call.log[Len(call.log)]
\* the domain request was answered with a 2xx body that decodes as a KisApiResponse
DomainAnswered ==
    /\ DomainSent
    /\ HttpResponse_is_success(DomainRequest.resp)
    /\ KisApiResponse_parse(DomainRequest.resp).ok
DomainBody == DomainRequest.resp.body
SigningFailed == \E i \in Requests("hashkey") : ~get_hashkey(call.log[i].resp).ok
AcquisitionFailed ==
    \E i \in Requests("token") :
        ~HttpResponse_is_success(call.log[i].resp) \/ ~TokenResponse_parses(call.log[i].resp.body)

(***************************************************************************)
(* C2.  Signing iff mutating: the domain request of every create, modify   *)
(* or cancel operation carries in its hashkey header the value a preceding *)
(* hashkey request of the same call returned, and no read operation issues *)
(* a hashkey request.                                                      *)
(***************************************************************************)
C2_SignIffMutating ==
    Returned =>
        /\ (call.op \in MutatingOps /\ DomainSent)
            => \E i \in Requests("hashkey") :
                /\ get_hashkey(call.log[i].resp).ok
                /\ DomainRequest.headers.hashkey = Some(get_hashkey(call.log[i].resp).value)
        /\ call.op \in ReadOps => Requests("hashkey") = {}

(***************************************************************************)
(* C3.  Every domain operation runs ensure_auth before its domain request: *)
(* a call that started without a usable credential (none held, or one     *)
(* within the 300-second margin) sends a domain request only after a token *)
(* request of the same call, and ends with an error when that token        *)
(* request fails.                                                          *)
(***************************************************************************)
C3_EnsureValidFirst ==
    (Returned /\ call.op \in DomainOps /\ ~is_authenticated(Pre, call.at))
    => /\ DomainSent => \E i \in Requests("token") : i < Len(call.log)
       /\ AcquisitionFailed => ~Result.ok

C5_RemoteError ==
    (Returned /\ call.op \in DomainOps /\ DomainAnswered /\ DomainBody.rt_cd # "0")
    => Result = Err(KisError("Api", DomainBody.msg_cd, DomainBody.msg1))

\* the operations that return one result object, and those that return a list
SingleResultOps ==
    { "domestic_buy", "domestic_sell", "domestic_revise_order", "domestic_cancel_order",
      "domestic_current_price", "overseas_order", "overseas_price",
      "future_order", "future_modify_order", "future_cancel_order", "future_get_deposit",
      "bond_buy", "bond_sell", "bond_revise_order", "bond_cancel_order",
      "bond_get_quote", "bond_get_price",
      "overseas_future_order", "overseas_future_cancel", "overseas_future_modify",
      "overseas_future_inquire_deposit" }
ListResultOps ==
    { "overseas_balance", "future_get_balance", "future_get_executions", "bond_get_balance",
      "overseas_future_inquire_unsettled", "overseas_future_inquire_execution" }

(***************************************************************************)
(* C6.  A single-result operation whose response has rt_cd "0" and no      *)
(* output, and the balance inquiry whose response has rt_cd "0" and no     *)
(* summary payload, fail with the missing-payload error and never return a *)
(* value made of defaults.                                                 *)
(***************************************************************************)
C6_MissingPayload ==
    (Returned /\ DomainAnswered /\ DomainBody.rt_cd = "0"
        /\ \/ call.op \in SingleResultOps /\ ~Has(DomainBody, "output")
           \/ call.op = "domestic_balance" /\ ~Has(DomainBody, "output2"))
    => Result = Err(KisError("Parse", "", "No output in response"))

(***************************************************************************)
(* C7.  A list-result operation whose response has rt_cd "0" and no        *)
(* output1 returns the empty list as a success; the balance inquiry        *)
(* returns an empty list of holdings.                                      *)
(***************************************************************************)
C7_EmptyList ==
    (Returned /\ DomainAnswered /\ DomainBody.rt_cd = "0" /\ ~Has(DomainBody, "output1"))
    => /\ call.op \in ListResultOps => Result = Ok(<< >>)
       /\ call.op = "domestic_balance" => (Result.ok /\ Result.value.items = << >>)

C7_Witness ==
    /\ Returned /\ call.op = "future_get_balance"
    /\ DomainAnswered /\ DomainBody.rt_cd = "0" /\ ~Has(DomainBody, "output1")
    /\ Result = Ok(<< >>)

C9_Instants(tok) == { t \in (tok.expires_at - 302) .. (tok.expires_at - 299) : t >= 0 } \cup {now}
C9_SafetyMargin ==
    /\ client.token = None => ~is_authenticated(client, now)
    /\ client.token # None =>
        LET tok == client.token[1]
            T == tok.expires_at - tok.expires_in
            L == tok.expires_in
        IN  \A t \in C9_Instants(tok) :
                /\ is_authenticated(client, t) <=> (t + 300 < T + L)
                /\ t = T + L - 301 => is_authenticated(client, t)
                /\ t = T + L - 300 => ~is_authenticated(client, t)

C9_Witness ==
    /\ client.token # None
    /\ now = client.token[1].expires_at - 300
    /\ ~is_authenticated(client, now)
    /\ is_authenticated(client, now - 1)

(***************************************************************************)
(* C10.  ensure_auth called without a usable credential, when the token    *)
(* request fails, returns the failure, leaves the stored credential as it  *)
(* was and leaves the session without a usable credential.                 *)
(***************************************************************************)
C10_FailedAcquisition ==
    (Returned /\ call.op = "ensure_auth" /\ ~is_authenticated(Pre, call.at)
        /\ AcquisitionFailed)
    => /\ ~Result.ok
       /\ Result.err.kind \in {"Auth", "Parse"}
       /\ client.token = Pre.token
       /\ ~is_authenticated(client, now)

C10_Witness ==
    /\ Returned /\ call.op = "ensure_auth" /\ AcquisitionFailed
    /\ Pre.token # None /\ client.token = Pre.token /\ ~Result.ok

(***************************************************************************)
(* C11.  Every failed token request and every failed hashkey request is    *)
(* reported with the Auth error kind, whatever made it fail: a non-success *)
(* transport response, an unparsable body, or a body with no HASH field.   *)
(***************************************************************************)
C11_AuthKind ==
    (Returned /\ (AcquisitionFailed \/ SigningFailed))
    => (~Result.ok /\ Result.err.kind = "Auth")

\* the token response carries an access token and a positive lifetime
CarriesCredential(body) ==
    /\ IsJson(body)
    /\ Has(body, "access_token")
    /\ Has(body, "expires_in")
    /\ body.expires_in > 0

(***************************************************************************)
(* C12.  A call whose token request is answered without an access token    *)
(* or without a positive lifetime (expires_in missing or 0) stores no      *)
(* credential and fails.                                                   *)
(***************************************************************************)
C12_PositiveLifetime ==
    (Returned /\ \E i \in Requests("token") : ~CarriesCredential(call.log[i].resp.body))
    => (~Result.ok /\ client.token = Pre.token)

(***************************************************************************)
(* C13.  A credential acquired from an accepted token response is stored   *)
(* with expires_at equal to the exact integer sum of the clock value read  *)
(* at the acquisition and the response's expires_in, without wrap-around.  *)
(***************************************************************************)
C13_ExactExpiry ==
    (Returned /\ Requests("token") # {} /\ ~AcquisitionFailed)
    => /\ client.token # None
       /\ client.token[1].expires_at = now + client.token[1].expires_in

(***************************************************************************)
(* C14.  From a successful response, signature extraction returns the      *)
(* top-level HASH when it is present (also when BODY.HASH is present too), *)
(* returns BODY.HASH when only that is present, and fails only when        *)
(* neither is present.                                                     *)
(***************************************************************************)
C14_SignatureExtraction ==
    (applied.fn = "get_hashkey" /\ HttpResponse_is_success(applied.given[1]))
    => LET body == applied.given[1].body
           top == IsJson(body) /\ Has(body, "HASH")
           nested == IsJson(body) /\ Has(body, "BODY") /\ Has(body.BODY, "HASH")
           extracted == applied.returned[1]
       IN  /\ top => (extracted.ok /\ extracted.value = body.HASH)
           /\ (~top /\ nested) => (extracted.ok /\ extracted.value = body.BODY.HASH)
           /\ ~extracted.ok => (~top /\ ~nested)

(***************************************************************************)
(* C15.  Token acquisition, signing and the domain requests (get, post and *)
(* the signed post) report a transport failure for a response exactly when *)
(* the response has a transport error marker or a status outside           *)
(* [200,300).                                                              *)
(***************************************************************************)
SuccessRule(r) == r.error = None /\ r.status >= 200 /\ r.status < 300
ReportsTransportFailure(fn, r, out) ==
    /\ ~out.ok
    /\ IF fn \in {"get_token", "get_hashkey"}
       THEN out.err.kind = "Auth"
       ELSE out.err.kind = "Api" /\ out.err.code = StatusString(r.status)
C15_SuccessRule ==
    applied.fn \in {"get_token", "get_hashkey", "get", "post", "post_with_hashkey"}
    => (ReportsTransportFailure(applied.fn, applied.given[1], applied.returned[1])
            <=> ~SuccessRule(applied.given[1]))

C15_Witness ==
    /\ applied.fn = "post_with_hashkey"
    /\ applied.given[1].status = 200 /\ applied.given[1].error # None
    /\ ReportsTransportFailure(applied.fn, applied.given[1], applied.returned[1])

(***************************************************************************)
(* C16.  The word serialize_response builds from an address and a length   *)
(* holds the address in its high half and the length in its low half, and  *)
(* the decoding execute applies to a word gives back that address and that *)
(* length.                                                                 *)
(***************************************************************************)
C16_PackUnpack ==
    applied.fn = "serialize_response"
    => LET out_ptr == applied.given[1][1]
           out_len == applied.given[1][2]
           word == applied.returned[1]
       IN  /\ unpack(word).res_ptr = out_ptr
           /\ unpack(word).res_len = out_len
           /\ word \div I32_MODULUS = out_ptr % I32_MODULUS
           /\ word % I32_MODULUS = out_len

C16_Witness ==
    /\ applied.fn = "serialize_response"
    /\ applied.given[1] = << I32_MIN, I32_MAX >>
    /\ unpack(applied.returned[1]) = [res_ptr |-> I32_MIN, res_len |-> I32_MAX]

(***************************************************************************)
(* C17.  Given a word whose address half or length half is zero, execute   *)
(* returns the failure response (status 0, error marker set) and reads no  *)
(* memory.                                                                 *)
(***************************************************************************)
C17_NoData ==
    (applied.fn = "execute"
        /\ \/ applied.given[1].result_packed \div I32_MODULUS = 0
           \/ applied.given[1].result_packed % I32_MODULUS = 0)
    => /\ applied.returned[1].response.status = 0
       /\ applied.returned[1].response.error # None
       /\ applied.returned[1].read = { }

C17_Witness ==
    /\ applied.fn = "execute"
    /\ applied.given[1].result_packed \div I32_MODULUS # 0
    /\ applied.given[1].result_packed % I32_MODULUS = 0
    /\ applied.given[1].stored # None
    /\ applied.returned[1].response.status = 0
    /\ applied.returned[1].read = { }

\* the i-th request of the returned call was answered with a failure
RequestFailed(i) ==
    LET r == call.log[i]
    IN  CASE r.kind = "token" ->
                ~HttpResponse_is_success(r.resp) \/ ~TokenResponse_parses(r.resp.body)
          [] r.kind = "hashkey" -> ~get_hashkey(r.resp).ok
          [] r.kind = "domain" -> ~HttpResponse_is_success(r.resp)

(***************************************************************************)
(* C18.  One invocation of a domain operation issues at most one token     *)
(* request, at most one hashkey request and at most one domain request,    *)
(* and a request that fails is the last one it issues: the operation       *)
(* returns an error without issuing another.                               *)
(***************************************************************************)
C18_NoRetry ==
    (Returned /\ call.op \in DomainOps)
    => /\ \A kind \in {"token", "hashkey", "domain"} : Cardinality(Requests(kind)) <= 1
       /\ \A i \in DOMAIN call.log :
            RequestFailed(i) => (i = Len(call.log) /\ ~Result.ok)

C18_Witness ==
    /\ Returned /\ call.op = "overseas_order"
    /\ Kinds = << "token", "hashkey", "domain" >>
    /\ RequestFailed(3) /\ ~Result.ok

\* the entry point last called, the state it started from, what it answered
Entered == entry.op # "idle"
Response == entry.response[1]
Before == entry.pre[1]
\* the client returned an error to the entry point
ClientFailed == entry.failure # None
EntryRequests(kind) == { i \in DOMAIN entry.log : entry.log[i].kind = kind }

(***************************************************************************)
(* C19.  When the buy or sell that submit_order makes fails with any error *)
(* of the client, the response is an order of the request with status      *)
(* Rejected (never Submitted) whose extensions carry "Order failed: "      *)
(* followed by the text of the error, and the call issued no request       *)
(* beyond those of the one failed attempt.                                 *)
(***************************************************************************)
C19_RejectedOnFailure ==
    (Entered /\ entry.op = "submit_order" /\ ClientFailed)
    => /\ Response.order.status = "Rejected"
       /\ Response.order.request = entry.request[1].order
       /\ Response.order.extensions
            = Some([error |-> << "Order failed: ", Display(entry.failure[1]) >>])
       /\ \A kind \in {"token", "hashkey", "domain"} : Cardinality(EntryRequests(kind)) <= 1
       /\ \A i \in DOMAIN entry.log :
            entry.log[i].kind = "domain" /\ ~HttpResponse_is_success(entry.log[i].resp)
            => i = Len(entry.log)

C19_Witness ==
    /\ Entered /\ entry.op = "submit_order" /\ ClientFailed
    /\ entry.request[1].order.side = "Sell"
    /\ entry.failure[1].kind = "Api"
    /\ Len(entry.log) = 3
    /\ Response.order.status = "Rejected"

\* what get_accounts and get_positions answer when the fetch succeeds and
\* the account holds nothing: no summary and no items
ZeroAccountsResponse ==
    [accounts |-> << AccountSummary(state, AccountBalance(EmptyBalanceSummary),
                                    Positions(<< >>), now) >>]
NoPositionsResponse == [positions |-> Positions(<< >>)]

(***************************************************************************)
(* C20.  A failed balance fetch is not downgraded to a default: when the   *)
(* fetch behind get_accounts or get_positions fails, the response differs  *)
(* from the one given for a successful fetch of an account with zero       *)
(* balance and no positions.                                               *)
(***************************************************************************)
C20_FailureDistinct ==
    (Entered /\ ClientFailed)
    => /\ entry.op = "get_accounts" => Response # ZeroAccountsResponse
       /\ entry.op = "get_positions" => Response # NoPositionsResponse

\* an environment in which every request is granted
Granted ==
    [token |-> HttpResponse(200, None, [access_token |-> "tokA", token_type |-> "Bearer",
                                        expires_in |-> 302]),
     hashkey |-> HttpResponse(200, None, [HASH |-> "h_top"]),
     domain |-> HttpResponse(200, None,
                             [rt_cd |-> "0", msg_cd |-> "MCA00000", msg1 |-> "ok",
                              output |-> Payload]),
     dt |-> 0, overflow_checks |-> FALSE]

\* the identifier an operation put in the tr_id header of its domain request
SentTrId(o) ==
    LET i == CHOOSE i \in DOMAIN o.log : o.log[i].kind = "domain"
    IN  o.log[i].headers.tr_id[1]

\* the identifiers the domain operations send on the client c
IdentifiersSent(c) ==
    { SentTrId(domestic_buy(c, Granted, 0)), SentTrId(domestic_sell(c, Granted, 0)),
      SentTrId(domestic_revise_order(c, Granted, 0)),
      SentTrId(domestic_cancel_order(c, Granted, 0)),
      SentTrId(domestic_balance(c, Granted, 0)),
      SentTrId(domestic_current_price(c, Granted, 0)),
      SentTrId(overseas_balance(c, Granted, 0)), SentTrId(overseas_price(c, Granted, 0)),
      SentTrId(future_modify_order(c, Granted, 0)),
      SentTrId(future_cancel_order(c, Granted, 0)),
      SentTrId(future_get_balance(c, Granted, 0)),
      SentTrId(future_get_deposit(c, Granted, 0)),
      SentTrId(future_get_executions(c, Granted, 0)),
      SentTrId(bond_buy(c, Granted, 0)), SentTrId(bond_sell(c, Granted, 0)),
      SentTrId(bond_revise_order(c, Granted, 0)), SentTrId(bond_cancel_order(c, Granted, 0)),
      SentTrId(bond_get_balance(c, Granted, 0)), SentTrId(bond_get_quote(c, Granted, 0)),
      SentTrId(bond_get_price(c, Granted, 0)),
      SentTrId(overseas_future_cancel(c, Granted, 0)),
      SentTrId(overseas_future_modify(c, Granted, 0)),
      SentTrId(overseas_future_inquire_unsettled(c, Granted, 0)),
      SentTrId(overseas_future_inquire_deposit(c, Granted, 0)),
      SentTrId(overseas_future_inquire_execution(c, Granted, 0)) }
    \cup { SentTrId(overseas_order(c, Granted, 0, exchange, side)) :
              exchange \in Exchanges, side \in OrderSides }
    \cup { SentTrId(future_order(c, Granted, 0, action)) : action \in FutureOrderActions }
    \cup { SentTrId(overseas_future_order(c, Granted, 0, side, position_type)) :
              side \in OrderSides, position_type \in PositionTypes }

ProductionIds == IdentifiersSent(Authenticated(KisClient_new(KisConfig(FALSE))))
PaperIds == IdentifiersSent(Authenticated(KisClient_new(KisConfig(TRUE))))

(***************************************************************************)
(* C22.  Every domain operation has a production identifier and a paper    *)
(* identifier, and is_paper chooses the one sent in the tr_id header: a    *)
(* paper session never sends an identifier that production sessions send,  *)
(* and a production session never sends one that paper sessions send.      *)
(***************************************************************************)
C22_TrIdByEnvironment ==
    (Returned /\ call.op \in DomainOps /\ DomainSent)
    => LET tr_id == DomainRequest.headers.tr_id[1]
       IN  /\ Pre.config.is_paper => tr_id \notin ProductionIds
           /\ ~Pre.config.is_paper => tr_id \notin PaperIds

(***************************************************************************)
(* C23.  The environment is fixed when the client is built: whenever the   *)
(* plugin holds a client, its base address is the paper address exactly    *)
(* when its is_paper is true, the shell's is_paper and account_no equal    *)
(* the client's configured ones, and an entry point other than initialize  *)
(* (and every operation of the client) leaves the client's configuration   *)
(* and base address as they were.                                          *)
(***************************************************************************)
C23_EnvironmentFixed ==
    /\ state.client # None
       => /\ state.client[1].http.base_url
               = (IF state.client[1].config.is_paper THEN VPS_BASE_URL ELSE PROD_BASE_URL)
          /\ state.is_paper = state.client[1].config.is_paper
          /\ state.account_no = state.client[1].config.account_no
    /\ (Entered /\ entry.op # "initialize" /\ Before.client # None)
       => /\ state.client # None
          /\ state.client[1].config = Before.client[1].config
          /\ state.client[1].http = Before.client[1].http
    /\ Returned
       => /\ client.config = Pre.config
          /\ client.http = Pre.http
          /\ client.http.base_url
               = (IF client.config.is_paper THEN VPS_BASE_URL ELSE PROD_BASE_URL)

C23_Witness ==
    /\ Entered /\ entry.op = "submit_order" /\ Before.client # None
    /\ ~state.is_paper
    /\ Before.client[1].token = None
    /\ state.client[1].token # None
    /\ state.client[1].http.base_url = PROD_BASE_URL

\* the operations that run ensure_auth before their requests
EnsuringOps ==
    { "ensure_auth",
      "domestic_buy", "domestic_sell", "domestic_revise_order", "domestic_cancel_order",
      "domestic_balance", "domestic_current_price",
      "overseas_order", "overseas_balance", "overseas_price",
      "future_order", "future_modify_order", "future_cancel_order",
      "future_get_balance", "future_get_deposit", "future_get_executions" }

\* the call started with a credential inside the 300-second margin
StartedExpired == Pre.token # None /\ call.at + EXPIRY_BUFFER >= Pre.token[1].expires_at

(***************************************************************************)
(* C24.  Refresh is lazy and synchronous.  A credential inside the margin  *)
(* (now + 300 >= expires_at) makes the session unauthenticated; a call     *)
(* that does not run ensure_auth then issues no token request and leaves   *)
(* the credential alone; a call that runs ensure_auth issues exactly one   *)
(* token request, its first request, and when that acquisition returns a   *)
(* credential the stored one is replaced whole: access token, token type   *)
(* and lifetime are those of the response and the expiry is the u64 sum of *)
(* the acquisition instant and the new lifetime.                           *)
(***************************************************************************)
C24_LazyRefresh ==
    (Returned /\ StartedExpired)
    => /\ ~is_authenticated(Pre, call.at)
       /\ call.op \notin EnsuringOps \cup {"authenticate"}
            => (Requests("token") = {} /\ client.token = Pre.token)
       /\ call.op \in EnsuringOps
            => /\ Requests("token") = {1}
               /\ (~AcquisitionFailed /\ Result # Panic)
                    => LET body == call.log[1].resp.body
                       IN  client.token
                             = Some([access_token |-> body.access_token,
                                     token_type |-> body.token_type,
                                     expires_in |-> body.expires_in,
                                     expires_at |-> (now + body.expires_in) % U64_MODULUS])

C24_Witness ==
    /\ Returned /\ StartedExpired /\ call.op = "domestic_balance"
    /\ Pre.token[1].access_token = "tokA"
    /\ Requests("token") = {1} /\ ~AcquisitionFailed
    /\ client.token[1].access_token = "tokB"
    /\ client.token[1].expires_at # Pre.token[1].expires_at

\* the token request of the returned call was answered with a credential
Acquired(i) ==
    /\ HttpResponse_is_success(call.log[i].resp)
    /\ TokenResponse_parses(call.log[i].resp.body)

(***************************************************************************)
(* C25.  The stored credential changes only in a successful token          *)
(* acquisition: a call that issues no token request, or whose token        *)
(* request fails, leaves the credential exactly as it was, whatever its    *)
(* hashkey and domain requests returned (transport failure, 401 included,  *)
(* decode failure, remote failure or success); and a credential that       *)
(* changed is the one a token request of the same call was answered with.  *)
(***************************************************************************)
C25_CredentialFrame ==
    Returned
    => /\ (Requests("token") = {} \/ AcquisitionFailed) => client.token = Pre.token
       /\ client.token # Pre.token
            => \E i \in Requests("token") :
                /\ Acquired(i)
                /\ client.token # None
                /\ client.token[1].access_token = call.log[i].resp.body.access_token

C25_Witness ==
    /\ Returned /\ call.op = "domestic_buy" /\ Pre.token # None
    /\ Kinds = << "hashkey", "domain" >>
    /\ DomainRequest.resp.status = 401
    /\ ~Result.ok
    /\ client.token = Pre.token

\* the entry point got the lock: no earlier call panicked while holding it
Locked == Entered /\ ~Before.poisoned

\* a configuration with an empty app_key, app_secret or account_no, or an
\* account_no that is not 10 characters long
FailsValidation(config_json) ==
    \/ StrOrDefault(config_json, "app_key") = ""
    \/ StrOrDefault(config_json, "app_secret") = ""
    \/ Len(StrOrDefault(config_json, "account_no")) # 10

(***************************************************************************)
(* C26.  An initialize whose configuration fails validation returns        *)
(* success = false, issues no request and leaves the whole plugin state    *)
(* as it was: client and credential, account_no, is_paper, orders and      *)
(* next_order_id, a client installed by an earlier initialize included.    *)
(***************************************************************************)
C26_FailedInitialize ==
    (Locked /\ entry.op = "initialize" /\ FailsValidation(entry.request[1]))
    => /\ Response.success = FALSE
       /\ entry.log = << >>
       /\ state = Before

C26_Witness ==
    /\ Locked /\ entry.op = "initialize" /\ FailsValidation(entry.request[1])
    /\ Before.client # None
    /\ Before.client[1].token # None
    /\ DOMAIN Before.orders # {}
    /\ Before.next_order_id = 2
    /\ state = Before

\* the entry point handed the request to the client it holds
ReachedClient ==
    /\ Locked /\ Before.client # None
    /\ \/ entry.op \in {"get_accounts", "submit_order"}
       \/ entry.op = "get_positions" /\ entry.request[1].account_id = Before.account_no

(***************************************************************************)
(* C27.  A successful initialize on a plugin that already holds a client   *)
(* installs a new client, built from the new configuration and holding no  *)
(* credential, and leaves orders and next_order_id as they were; the next  *)
(* call that reaches the client therefore starts with a token request,     *)
(* however usable the credential of the replaced client was.               *)
(***************************************************************************)
C27_Reinitialize ==
    /\ (Locked /\ entry.op = "initialize" /\ Before.client # None /\ Response.success)
       => /\ state.client # None
          /\ state.client[1].token = None
          /\ state.client[1].config
               = [app_key |-> entry.request[1].app_key,
                  app_secret |-> entry.request[1].app_secret,
                  account_no |-> entry.request[1].account_no,
                  is_paper |-> IF Has(entry.request[1], "is_paper")
                               THEN entry.request[1].is_paper ELSE TRUE]
          /\ state.orders = Before.orders
          /\ state.next_order_id = Before.next_order_id
    /\ (ReachedClient /\ Before.client[1].token = None)
       => (entry.log # << >> /\ entry.log[1].kind = "token")

C27_Witness ==
    /\ Locked /\ entry.op = "initialize" /\ Response.success
    /\ Before.client # None
    /\ Before.client[1].token # None
    /\ is_authenticated(Before.client[1], entry.at)
    /\ DOMAIN Before.orders # {}
    /\ state.client[1].config.is_paper # Before.client[1].config.is_paper
    /\ state.client[1].token = None

\* submit_order reached the client and the buy or sell returned Ok
Submitted ==
    /\ ReachedClient /\ entry.op = "submit_order"
    /\ entry.failure = None
    /\ Response # Trap

\* the order number in the broker's answer to the order, if it sent one
BrokerAnswer == entry.log[Len(entry.log)].resp.body.output

(***************************************************************************)
(* C28.  next_order_id starts at 1 and never decreases: a successful       *)
(* submit_order adds exactly 1 to it, whether the broker sent an order     *)
(* number or not, and every other call (a failed or uninitialized          *)
(* submit_order, initialize, get_accounts, get_positions) leaves it as it  *)
(* was.  The order of a successful submit_order is named by the broker's   *)
(* order number when there is one, and kr_N, N the counter before the      *)
(* call, only when there is none.                                          *)
(***************************************************************************)
C28_NextOrderId ==
    /\ BrokerState_new.next_order_id = 1
    /\ state.next_order_id >= 1
    /\ Entered
       => /\ Submitted => state.next_order_id = Before.next_order_id + 1
          /\ ~Submitted => state.next_order_id = Before.next_order_id
          /\ Submitted
               => Response.order.id
                    = (IF Has(BrokerAnswer, "ODNO") THEN BrokerAnswer.ODNO
                       ELSE KrId(Before.next_order_id))

C28_Witness ==
    /\ Submitted
    /\ Before.next_order_id = 2
    /\ DOMAIN Before.orders = { Payload.ODNO }
    /\ Response.order.id = "kr_2"
    /\ state.next_order_id = 3

(***************************************************************************)
(* C29.  Every entry of the orders map is stored under its own order id    *)
(* and has status Submitted; the map changes only in a successful          *)
(* submit_order, which inserts the order it answers with, so that a        *)
(* rejected order is never stored and a failed submit_order leaves the map *)
(* as it was; and the map never holds more entries than there were         *)
(* successful submissions (next_order_id - 1 of them).                     *)
(***************************************************************************)
C29_OrdersMap ==
    /\ \A id \in DOMAIN state.orders :
            /\ state.orders[id].id = id
            /\ state.orders[id].status = "Submitted"
    /\ Cardinality(DOMAIN state.orders) <= state.next_order_id - 1
    /\ Entered
       => /\ ~Submitted => state.orders = Before.orders
          /\ Submitted
               => /\ Response.order.status = "Submitted"
                  /\ state.orders = Insert(Before.orders, Response.order.id, Response.order)

C29_Witness ==
    /\ Submitted
    /\ Response.order.id \in DOMAIN Before.orders
    /\ Before.orders[Response.order.id] # Response.order
    /\ Cardinality(DOMAIN state.orders) = 1
    /\ state.next_order_id = 3

(***************************************************************************)
(* C30.  While no initialize has succeeded the plugin holds no client, and *)
(* submit_order, get_accounts and get_positions issue no request and leave *)
(* the state as it was: submit_order answers an order with status Rejected *)
(* carrying "Plugin not initialized", get_accounts a single error account  *)
(* and get_positions an empty list.  get_positions for an account other    *)
(* than the configured one likewise answers an empty list, issues no       *)
(* request and changes nothing.                                            *)
(***************************************************************************)
C30_Uninitialized ==
    /\ (Locked /\ Before.client = None
          /\ entry.op \in {"submit_order", "get_accounts", "get_positions"})
       => /\ entry.log = << >>
          /\ state = Before
          /\ entry.op = "submit_order"
               => /\ Response.order.status = "Rejected"
                  /\ Response.order.extensions = Some([error |-> "Plugin not initialized"])
          /\ entry.op = "get_accounts"
               => /\ Len(Response.accounts) = 1
                  /\ Response.accounts[1].id = "error"
                  /\ Response.accounts[1].name = << "Error", "Plugin not initialized" >>
          /\ entry.op = "get_positions" => Response = [positions |-> << >>]
    /\ (Locked /\ entry.op = "get_positions"
          /\ entry.request[1].account_id # Before.account_no)
       => /\ Response = [positions |-> << >>]
          /\ entry.log = << >>
          /\ state = Before

C30_Witness ==
    /\ Locked /\ entry.op = "get_positions"
    /\ Before.client # None
    /\ Before.client[1].token = None
    /\ entry.request[1].account_id = "error"
    /\ entry.log = << >>
    /\ Response = [positions |-> << >>]

\* the statements a thread has executed of the entry point it is in
Executed(t, statement) ==
    \E i \in 1..(threads[t].pc - 1) : Program(threads[t].op)[i] = statement
\* the thread is in its critical section: past the lock, before the drop of the guard
Inside(t) == Executed(t, "lock") /\ ~Executed(t, "unlock")
\* the thread is about to read or write the state, or to go to the network
Accessing(t) == Running(t) /\ Statement(t) \in {"enter", "run"}

(***************************************************************************)
(* C21.  Under every interleaving of concurrent calls of initialize,       *)
(* get_accounts, get_positions and submit_order, at most one call is in    *)
(* its critical section; a call reads or writes the state, or goes to the  *)
(* network, only while it is in its critical section and holds the lock;   *)
(* and what a call has read of the state is still the state when it writes *)
(* it, so that no two calls' changes of the state overlap.                 *)
(***************************************************************************)
C21_LockHeld ==
    /\ Cardinality({ t \in 1..MaxThreads : Inside(t) }) <= 1
    /\ \A t \in 1..MaxThreads :
        /\ Inside(t) <=> lock = Some(t)
        /\ Accessing(t) => (Inside(t) /\ lock = Some(t))
        /\ threads[t].seen # None => threads[t].seen[1] = state

C21_Witness ==
    /\ threads[1].op = "submit_order" /\ Statement(1) = "run"
    /\ threads[2].op = "initialize" /\ Statement(2) = "lock"
    /\ lock = Some(1)
    /\ state.client # None
    /\ state.next_order_id = 2

====
